---- MODULE Spec2Model ----
(***************************************************************************)
(* The orchestration loop of g8t: the Task Loop Controller (Agent.Run),    *)
(* the Response Parser's outcomes, the Command Safety Validator, the       *)
(* Command Executor's outcomes and the Step History, as they are written   *)
(* in the five loop implementations the repository holds:                  *)
(*   "agent"   src/agent/agent.go       package agent, sentinel protocol   *)
(*   "part001" src/unnamed/part_001     package agent, sentinel protocol   *)
(*   "part000" src/unnamed/part_000     package agent, completed flag      *)
(*   "main"    src/main.go              package main, validating loop      *)
(*   "part003" src/unnamed/part_003     package main, validating + memory  *)
(***************************************************************************)
EXTENDS Integers, Sequences, FiniteSets, TLC

VARIABLES
    variant,        \* which loop implementation runs
    config,         \* config.Config: MaxCommands, DryRun, AllowedCmds
    pc,             \* "loop" | "complete" | "exec" | "returned" | "idle"
    stepCount,      \* Agent.stepCount (package agent)
    i,              \* the loop variable of Run (package main)
    history,        \* History: [Steps, MaxSteps] (package agent)
    commandLog,     \* Agent.commandLog (package main)
    longTermPlan,   \* Agent.longTermPlan (package main)
    failedAttempts, \* Agent.memory.FailedAttempts (part_003)
    reply,          \* what parseResponse returned for the tick's reply
    flagged,        \* the reply's text has true under the completion key
    response,       \* the thought and command written in the reply's text
    runErr,         \* what Run returned: "running" until it returns
    errLimit,       \* the number formatted into the budget error
    errCause,       \* the error wrapped into the returned error
    calls,          \* completion-service calls made so far
    spawns,         \* subprocesses spawned so far
    gptErrors,      \* completion-service calls that returned an error
    proposed,       \* the commands handed to executeCommand (package main)
    leaked,         \* the Execute call that returned left a descendant running
    memory,         \* Agent.memory: CompletedSteps and KeyFindings (part_003)
    probes,         \* probes of the environment made for the system message
    systemMsg,      \* the system text of the latest completion call
    runs,           \* invocations of Run on this Agent
    replyText,      \* the reply text handed to parseResponse, token by token
    provider,       \* the backend whose client Complete is called on
    httpResp,       \* what the backend sent back to that client
    last            \* what the last step of the loop did

vars == <<variant, config, pc, stepCount, i, history, commandLog, longTermPlan,
          failedAttempts, reply, flagged, response, runErr, errLimit, errCause, calls,
          spawns, gptErrors, proposed, leaked, memory, probes, systemMsg, runs,
          replyText, provider, httpResp, last>>

----------------------------------------------------------------------------
(* Bounds of the model.                                                    *)

\* The largest config.MaxCommands explored (the code admits 1..100).
MaxBudget == 3
\* The largest History capacity explored by SpecHistory.
MaxK == 3
\* The number of appends SpecHistory performs at most.
MaxAdds == 17
\* The most commands SpecValidate lets run after a command's earlier run.
MaxLater == 5
\* The most commands SpecValidate lets run before a command's earlier run.
MaxBefore == 6

(* Program constants.                                                      *)
MaxRememberedCommands == 15
AgentMaxSteps == 10
Part000MaxSteps == 20
RepeatWindowMain == 3
RepeatWindowPart003 == 5

Variants == {"agent", "part001", "part000", "main", "part003"}
AgentVariants == {"agent", "part001", "part000"}
MainVariants == {"main", "part003"}

----------------------------------------------------------------------------
(* Text.  A command is named by its literal text; Text gives its bytes,    *)
(* on which the validator's string functions work.                         *)

Cmds == {"ls", "pwd", "cd /tmp", "sudo ls"}

Text(c) ==
    CASE c = "ls" -> <<"l", "s">>
      [] c = "pwd" -> <<"p", "w", "d">>
      [] c = "cd /tmp" -> <<"c", "d", " ", "/", "t", "m", "p">>
      [] c = "sudo ls" -> <<"s", "u", "d", "o", " ", "l", "s">>
      [] c = "sudo" -> <<"s", "u", "d", "o">>
      [] c = "cd" -> <<"c", "d">>
      [] c = "TASK_COMPLETE" -> <<"T", "A", "S", "K", "_", "C", "O", "M", "P", "L", "E", "T", "E">>
      [] c = ": " -> <<":", " ">>
      [] c = "TASK_COMPLETED" ->
           <<"T", "A", "S", "K", "_", "C", "O", "M", "P", "L", "E", "T", "E", "D">>
      [] c = "  cd /tmp" -> <<" ", " ", "c", "d", " ", "/", "t", "m", "p">>
      [] c = "cd\t/tmp" -> <<"c", "d", "\t", "/", "t", "m", "p">>
      [] c = "mkdir build" -> <<"m", "k", "d", "i", "r", " ", "b", "u", "i", "l", "d">>
      [] c = "mkdir -p build" ->
           <<"m", "k", "d", "i", "r", " ", "-", "p", " ", "b", "u", "i", "l", "d">>
      [] c = "mkdir my-project" ->
           <<"m", "k", "d", "i", "r", " ", "m", "y", "-", "p", "r", "o", "j", "e", "c", "t">>
      [] c = "echo 'a\\nb' > f" ->
           <<"e", "c", "h", "o", " ", "'", "a", "\\", "n", "b", "'", " ", ">", " ", "f">>
      [] c = "echo \"a\\nb\" > f" ->
           <<"e", "c", "h", "o", " ", "\"", "a", "\\", "n", "b", "\"", " ", ">", " ", "f">>
      [] c = "echo -e 'a\\nb' > f" ->
           <<"e", "c", "h", "o", " ", "-", "e", " ", "'", "a", "\\", "n", "b", "'", " ", ">", " ", "f">>
      [] c = "echo 'hi'" -> <<"e", "c", "h", "o", " ", "'", "h", "i", "'">>
      [] c = "curl example.com" ->
           <<"c", "u", "r", "l", " ", "e", "x", "a", "m", "p", "l", "e", ".", "c", "o", "m">>
      [] c = "rm -rf build" -> <<"r", "m", " ", "-", "r", "f", " ", "b", "u", "i", "l", "d">>
      [] c = "rm -rf /" -> <<"r", "m", " ", "-", "r", "f", " ", "/">>
      [] c = "ls; sudo rm -rf /" ->
           <<"l", "s", ";", " ", "s", "u", "d", "o", " ", "r", "m", " ", "-", "r", "f", " ", "/">>
      [] c = "ls ; sudo rm -rf /" ->
           <<"l", "s", " ", ";", " ", "s", "u", "d", "o", " ", "r", "m", " ", "-", "r", "f", " ", "/">>
      [] c = "cd a; echo 'b\\n'" ->
           <<"c", "d", " ", "a", ";", " ", "e", "c", "h", "o", " ", "'", "b", "\\", "n", "'">>
      [] c = "mkdir a; echo 'b\\n'" ->
           <<"m", "k", "d", "i", "r", " ", "a", ";", " ", "e", "c", "h", "o", " ", "'", "b", "\\", "n", "'">>
      [] c = "mkdir sudo" ->
           <<"m", "k", "d", "i", "r", " ", "s", "u", "d", "o">>
      [] c = "echo 'curl\\n'" ->
           <<"e", "c", "h", "o", " ", "'", "c", "u", "r", "l", "\\", "n", "'">>
      [] c = "cd curl" ->
           <<"c", "d", " ", "c", "u", "r", "l">>
      [] c = "curl" -> <<"c", "u", "r", "l">>
      [] c = "mkdir" -> <<"m", "k", "d", "i", "r">>
      [] c = "echo" -> <<"e", "c", "h", "o">>
      [] c = "rm" -> <<"r", "m">>
      [] OTHER -> <<>>

IsSpace(ch) == ch \in {" ", "\t", "\n", "\r"}

\* strings.HasPrefix
HasPrefix(s, p) ==
    /\ Len(p) <= Len(s)
    /\ \A k \in 1..Len(p) : s[k] = p[k]

\* strings.Contains
Contains(s, sub) ==
    \E k \in 0..(Len(s) - Len(sub)) : \A j \in 1..Len(sub) : s[k + j] = sub[j]

\* strings.TrimSpace
TrimSpace(s) ==
    LET nonSpace == {k \in 1..Len(s) : ~IsSpace(s[k])}
    IN IF nonSpace = {} THEN <<>>
       ELSE LET lo == CHOOSE k \in nonSpace : \A m \in nonSpace : k <= m
                hi == CHOOSE k \in nonSpace : \A m \in nonSpace : k >= m
            IN SubSeq(s, lo, hi)

\* strings.Fields(s)[0]: the first whitespace-separated token (<<>> when
\* strings.Fields(s) is empty and the index expression would panic).
FirstField(s) ==
    LET t == TrimSpace(s)
        spaces == {k \in 1..Len(t) : IsSpace(t[k])}
    IN IF t = <<>> THEN <<>>
       ELSE IF spaces = {} THEN t
       ELSE SubSeq(t, 1, (CHOOSE k \in spaces : \A m \in spaces : k <= m) - 1)

----------------------------------------------------------------------------
(* Command Safety Validator (package main).                                *)

ErrCd == "cd commands don't work in this environment - use full paths instead"
ErrMkdir == "use 'mkdir -p' to avoid errors if directory exists"
ErrEcho == "use 'cat > file << EOF' instead of echo with \\n escapes for multi-line files"
ErrRepeat == "command was already tried recently - avoid repetition"
ErrDangerous == "dangerous command blocked"
ErrEmpty == "empty command"

\* validateCommand: "" when the command passes, the error text otherwise.
validateCommand(command) ==
    LET s == Text(command)
    IN IF HasPrefix(TrimSpace(s), <<"c", "d", " ">>) THEN ErrCd
       ELSE IF /\ HasPrefix(TrimSpace(s), <<"m", "k", "d", "i", "r", " ">>)
               /\ ~Contains(s, <<"-", "p">>) THEN ErrMkdir
       ELSE IF /\ Contains(s, <<"e", "c", "h", "o", " ", "'">>)
               /\ Contains(s, <<"\\", "n">>) THEN ErrEcho
       ELSE ""

\* A repetition check that reads the whole command log.
RepeatWindowWholeLog(v) == MaxRememberedCommands

\* The repetition window: 3 in main.go, 5 in part_003.
RepeatWindow(v) == IF v = "part003" THEN RepeatWindowPart003 ELSE RepeatWindowMain

\* A repetition check that reads the commands handed to executeCommand,
\* whatever became of them.
hasCommandBeenTriedOrProposed(v, log, command) ==
    \E k \in 1..Len(proposed) :
        k > Len(proposed) - RepeatWindow(v) /\ proposed[k] = command

\* hasCommandBeenTried
hasCommandBeenTried(v, log, command) ==
    LET start == IF Len(log) - RepeatWindow(v) < 0 THEN 0 ELSE Len(log) - RepeatWindow(v)
    IN \E k \in (start + 1)..Len(log) : log[k].Command = command

dangerousCommands == <<
    <<"r", "m", " ", "-", "r", "f", " ", "/">>,
    <<"s", "u", "d", "o", " ", "r", "m">>,
    <<"m", "k", "f", "s">>,
    <<"d", "d", " ", "i", "f", "=">>,
    <<":", "(", ")", "{", " ", ":", "|", ":", "&", " ", "}", ";", ":">>,
    <<"c", "h", "m", "o", "d", " ", "-", "R", " ", "7", "7", "7", " ", "/">>,
    <<"c", "h", "o", "w", "n", " ", "-", "R">>,
    <<">", " ", "/", "d", "e", "v", "/">>,
    <<"c", "u", "r", "l">>,
    <<"w", "g", "e", "t">>,
    <<"s", "u", "d", "o">>,
    <<"s", "u", " ", "-">>,
    <<"p", "a", "s", "s", "w", "d">>,
    <<"u", "s", "e", "r", "a", "d", "d">>,
    <<"u", "s", "e", "r", "d", "e", "l">>
>>

\* Config.IsCommandAllowed
IsCommandAllowed(allowed, cmd) == \E a \in allowed : Text(a) = cmd

\* The blocklist tried on the command's first field only.
IsBlockedLeadingTokenOnly(allowed, command) ==
    /\ \E k \in 1..Len(dangerousCommands) :
          Contains(FirstField(Text(command)), dangerousCommands[k])
    /\ ~IsCommandAllowed(allowed, FirstField(Text(command)))

\* The blocklist overridden by an allow-list entry anywhere in the command.
IsBlockedUnlessNamed(allowed, command) ==
    /\ \E k \in 1..Len(dangerousCommands) : Contains(Text(command), dangerousCommands[k])
    /\ ~\E a \in allowed : Contains(Text(command), Text(a))

\* The blocklist loop of executeCommand: TRUE when some pattern occurs in
\* the command and its first field is not allow-listed.
IsBlocked(allowed, command) ==
    /\ \E k \in 1..Len(dangerousCommands) : Contains(Text(command), dangerousCommands[k])
    /\ ~IsCommandAllowed(allowed, FirstField(Text(command)))

\* The checks executeCommand (package main) makes before it runs anything:
\* "" when the command goes on to the executor, the error text otherwise.
PreCheck(v, cfg, log, command) ==
    IF validateCommand(command) # "" THEN validateCommand(command)
    ELSE IF hasCommandBeenTried(v, log, command) THEN ErrRepeat
    ELSE IF IsBlocked(cfg.AllowedCmds, command) THEN ErrDangerous
    ELSE IF FirstField(Text(command)) = <<>> THEN ErrEmpty
    ELSE ""

----------------------------------------------------------------------------
(* Step History.                                                           *)

\* NewHistory
NewHistory(maxSteps) == [Steps |-> <<>>, MaxSteps |-> maxSteps]

\* AddStep without the eviction.
AddStepNoEvict(h, step) == [h EXCEPT !.Steps = Append(h.Steps, step)]

\* AddStep that records a Step only for a command that succeeded.
AddStepIfSuccess(h, step) ==
    LET s == Append(h.Steps, step)
    IN IF ~step.Success THEN h
       ELSE [h EXCEPT !.Steps = IF Len(s) > h.MaxSteps THEN Tail(s) ELSE s]

\* History.AddStep: append, then drop the oldest Step when over capacity.
AddStep(h, step) ==
    LET s == Append(h.Steps, step)
    IN [h EXCEPT !.Steps = IF Len(s) > h.MaxSteps THEN Tail(s) ELSE s]

\* The append and trim at the end of executeCommand (package main).
AppendLog(log, entry) ==
    LET l == Append(log, entry)
    IN IF Len(l) > MaxRememberedCommands
       THEN SubSeq(l, Len(l) - MaxRememberedCommands + 1, Len(l))
       ELSE l

----------------------------------------------------------------------------
(* Completion Port and Response Parser.                                    *)
(*                                                                         *)
(* The text a completion call returns is one of three shapes:              *)
(*   "nojson"  text with no brace character, e.g.  I cannot help           *)
(*   "badjson" a brace pair around text that is no JSON and holds none of  *)
(*             the field names, e.g.  {oops}                               *)
(*   "obj"     one well-formed flat object; a field that is "" is absent   *)
(*             from the object.  flag is the value under the completion    *)
(*             key ("done" in package main, "completed" in part_000), and  *)
(*             tail says whether fewer than 50 bytes ("short") follow the  *)
(*             start of that key up to the closing brace.                  *)

Thoughts == {"", "t"}
Plans == {"", "p1"}

\* The completion sentinel each system prompt names.
Sentinel(v) == IF v = "part000" THEN "TASK_COMPLETED" ELSE "TASK_COMPLETE"

ReplyCommands(v) == Cmds \cup {""} \cup (IF v \in AgentVariants THEN {Sentinel(v)} ELSE {})

NoJSON == [shape |-> "nojson", thought |-> "", command |-> "", flag |-> "absent",
           tail |-> "long", plan |-> ""]
BadJSON == [NoJSON EXCEPT !.shape = "badjson"]

Replies(v) ==
    {NoJSON, BadJSON} \cup
    {r \in [shape : {"obj"}, thought : Thoughts, command : ReplyCommands(v),
            flag : {"absent", "false", "true"}, tail : {"short", "long"},
            plan : Plans] :
        r.flag = "absent" => r.tail = "long"}

ParseOk(thought, command, completed, plan) ==
    [err |-> "", thought |-> thought, command |-> command,
     completed |-> completed, plan |-> plan]
ParseErr(e) ==
    [err |-> e, thought |-> "", command |-> "", completed |-> FALSE, plan |-> ""]

\* parseResponse, extractJSON and parseJSON of src/agent/agent.go (the same
\* in part_001): both fields are required, no completion flag is decoded.
ParseAgent(r) ==
    IF r.shape = "nojson" THEN ParseErr("no JSON found in response")
    ELSE IF r.shape = "badjson" THEN ParseErr("failed to parse JSON")
    ELSE IF r.thought = "" \/ r.command = ""
         THEN ParseErr("missing required fields in JSON response")
    ELSE ParseOk(r.thought, r.command, FALSE, "")

\* parseResponse and parseJSON of part_000.  parseJSON searches the text:
\* after a key it skips the key's two quotes and takes the text up to the
\* next quote, which is the separator between the key and its value (": ");
\* jsonStr[start:start+50] after the "completed" key is out of range, and the
\* process panics, when fewer than 50 bytes follow; it never returns an error.
ParsePart000(r) ==
    IF r.shape = "nojson" THEN ParseErr("no JSON found in response")
    ELSE IF r.shape = "badjson" THEN ParseOk("", "", FALSE, "")
    ELSE IF r.flag # "absent" /\ r.tail = "short" THEN ParseErr("panic")
    ELSE ParseOk(IF r.thought = "" THEN "" ELSE ": ",
                 IF r.command = "" THEN "" ELSE ": ",
                 r.flag = "true", "")

\* parseResponse of src/main.go (the same in part_003): encoding/json into
\* AgentResponse, every field optional.
ParseMain(r) ==
    IF r.shape = "nojson" THEN ParseErr("no valid JSON found in response")
    ELSE IF r.shape = "badjson" THEN ParseErr("failed to parse JSON")
    ELSE ParseOk(r.thought, r.command, r.flag = "true", r.plan)

ParseResponse(v, r) ==
    IF v \in {"agent", "part001"} THEN ParseAgent(r)
    ELSE IF v = "part000" THEN ParsePart000(r)
    ELSE ParseMain(r)

\* What Run does when Complete returns an error: every Run returns the
\* error, except part_001's, which logs it and continues.
OnCompleteError(v) == IF v = "part001" THEN "continue" ELSE "return"

\* What Run does when parseResponse returns an error: part_000 returns it,
\* every other Run logs it and continues.
OnParseError(v) == IF v = "part000" THEN "return" ELSE "continue"

\* Whether the parsed reply ends the run: the sentinel in agent.go and
\* part_001, the completed flag in part_000, the done flag in package main.
SignalsCompletion(v, p) ==
    IF v \in {"agent", "part001"} THEN p.command = "TASK_COMPLETE"
    ELSE p.completed

----------------------------------------------------------------------------
(* Command Executor.                                                       *)

\* How a spawned subprocess ends.  Package agent runs it under a 30 s
\* context, so it may be killed; ":" and the empty command (all part_000
\* ever runs) exit 0.
ExecOutcomes(v, command) ==
    IF FirstField(Text(command)) \in {<<>>, <<":">>} THEN {"exit0"}
    ELSE IF v \in AgentVariants THEN {"exit0", "exit1", "timeout"}
    ELSE {"exit0", "exit1"}

\* The error of a failed command dropped.
ExecErrorDropped(outcome) == ""

\* err.Error() of cmd.CombinedOutput's error ("" for nil).
ExecError(outcome) ==
    CASE outcome = "exit0" -> ""
      [] outcome = "exit1" -> "exit status 1"
      [] outcome = "timeout" -> "signal: killed"

\* The combined output captured.
ExecOutput(outcome) ==
    CASE outcome = "exit0" -> "out"
      [] outcome = "exit1" -> "errout"
      [] outcome = "timeout" -> ""

\* The dry-run output of each implementation.
DryRunOutput(v, command) ==
    IF v \in {"agent", "part001"} THEN <<"DRY RUN - command not executed">>
    ELSE IF v = "part000" THEN <<"[DRY RUN] Command would be executed: ", command>>
    ELSE <<"[DRY RUN] Command: ", command>>

\* Success set whatever the error.
StepSuccessAlways(errText) == TRUE

\* Step.Success as the code sets it from the command's error.
StepSuccess(errText) == errText = ""

\* A Step numbered from zero.
MakeStepZeroBased(number, thought, command, output, errText) ==
    [Number |-> number - 1, Thought |-> thought, Command |-> command,
     Output |-> output, Error |-> errText, Success |-> errText = ""]

\* The Step package agent records for a command.
MakeStep(number, thought, command, output, errText) ==
    [Number |-> number, Thought |-> thought, Command |-> command,
     Output |-> output, Error |-> errText, Success |-> StepSuccess(errText)]

\* The CommandLog entry package main records for an executed command.
MakeLog(command, output, errText) ==
    [Command |-> command, Output |-> output, Error |-> errText]

\* The capacity New gives the History.
HistorySize(v) == IF v = "part000" THEN Part000MaxSteps ELSE AgentMaxSteps

----------------------------------------------------------------------------
(* The system message and the agent's memory.  A prompt is a sequence of   *)
(* lines, each the label its format string starts with and the value       *)
(* formatted after it.                                                     *)

FailuresShown == 3

Line(label, value) == [label |-> label, value |-> value]

\* Progress texts a reply can report, and thoughts that mention a finding
\* (they hold the word "found").
ProgressNames ==
    <<"p1", "p2", "p3", "p4", "p5", "p6", "p7", "p8", "p9", "p10",
      "p11", "p12", "p13", "p14", "p15", "p16", "p17", "p18", "p19", "p20">>
FindingNames ==
    <<"found f1", "found f2", "found f3", "found f4", "found f5", "found f6",
      "found f7", "found f8", "found f9", "found f10", "found f11", "found f12",
      "found f13", "found f14", "found f15", "found f16", "found f17",
      "found f18", "found f19", "found f20">>

\* AgentMemory as NewAgent leaves it.
NewMemory == [CompletedSteps |-> <<>>, KeyFindings |-> <<>>]

\* contains(slice, item)
contains(slice, item) == \E k \in 1..Len(slice) : slice[k] = item

\* The thought holds "found", "discovered" or "identified".
MentionsFinding(thought) == \E k \in 1..Len(FindingNames) : FindingNames[k] = thought

\* updateMemoryFromResponse of part_003, the plan apart (it is longTermPlan).
updateMemoryFromResponse(mem, progress, thought) ==
    [CompletedSteps |->
        IF progress # "" /\ ~contains(mem.CompletedSteps, progress)
        THEN Append(mem.CompletedSteps, progress) ELSE mem.CompletedSteps,
     KeyFindings |->
        IF thought # "" /\ MentionsFinding(thought)
           /\ ~contains(mem.KeyFindings, thought)
        THEN Append(mem.KeyFindings, thought) ELSE mem.KeyFindings]

\* Each element of a slice on a line of its own.
ItemLines(label, slice) == [k \in 1..Len(slice) |-> Line(label, slice[k])]

\* memoryContext of part_003's buildSystemMessage: the plan, every completed
\* step, every key finding and the last FailuresShown failed attempts.
MemoryContext(plan, mem, failed) ==
    LET start == IF Len(failed) > FailuresShown THEN Len(failed) - FailuresShown ELSE 0
    IN (IF plan # "" THEN <<Line("CURRENT PLAN:", plan)>> ELSE <<>>)
       \o ItemLines("completed", mem.CompletedSteps)
       \o ItemLines("finding", mem.KeyFindings)
       \o ItemLines("failure", SubSeq(failed, start + 1, Len(failed)))

\* The system message of each implementation.  The working directory and
\* the repository context are what the probe of the environment returned.
SystemMessage(v, plan, mem, failed) ==
    IF v \in {"agent", "part001"} THEN <<Line("You are an AI assistant", "")>>
    ELSE IF v = "part000"
    THEN <<Line("You are an AI assistant", ""), Line("Current working directory", "cwd")>>
    ELSE <<Line("You are an AI agent", ""), Line("WORKING DIRECTORY", "cwd"),
           Line("repoContext", "repo")>>
         \o (IF v = "part003" THEN MemoryContext(plan, mem, failed) ELSE <<>>)

\* Probes of the environment made before the loop starts: part_000 asks for
\* the working directory when Run builds the system prompt, part_003 analyses
\* the project in NewAgent.
StartProbes(v) == IF v \in {"part000", "part003"} THEN 1 ELSE 0

----------------------------------------------------------------------------
(* Task Loop Controller: Agent.Run, one action per suspension point.       *)

Event(e, err) == [event |-> e, err |-> err, outcome |-> ""]
Executed(o, err) == [event |-> "executed", err |-> err, outcome |-> o]
NoReply == ParseErr("no reply")
NoResponse == [thought |-> "", command |-> ""]
NoBody == [json |-> FALSE, error |-> FALSE, items |-> 0, parts |-> 0, text |-> ""]
NoHTTP == [err |-> FALSE, status |-> 0, body |-> NoBody]

Configs == [MaxCommands : 1..MaxBudget, DryRun : BOOLEAN,
            AllowedCmds : {{}, {"sudo"}}]

\* New / NewAgent, and Run invoked.
Init ==
    /\ variant \in Variants
    /\ config \in Configs
    /\ pc = "loop"
    /\ stepCount = 0
    /\ i = 0
    /\ history = NewHistory(HistorySize(variant))
    /\ commandLog = <<>>
    /\ longTermPlan = ""
    /\ failedAttempts = <<>>
    /\ reply = NoReply
    /\ flagged = FALSE
    /\ response = NoResponse
    /\ runErr = "running"
    /\ errLimit = 0
    /\ errCause = ""
    /\ calls = 0
    /\ spawns = 0
    /\ gptErrors = 0
    /\ proposed = <<>>
    /\ leaked = FALSE
    /\ memory = NewMemory
    /\ probes = StartProbes(variant)
    /\ systemMsg = <<>>
    /\ runs = 1
    /\ replyText = <<>>
    /\ provider = "any"
    /\ httpResp = NoHTTP
    /\ last = Event("start", "")

\* The counter the loop condition tests.
Counter == IF variant \in AgentVariants THEN stepCount ELSE i

\* The loop condition and what follows it up to the completion call:
\* package agent increments stepCount here; when the condition fails Run
\* returns the budget error, which names config.MaxCommands.
LoopHead ==
    /\ pc = "loop"
    /\ IF Counter < config.MaxCommands
       THEN /\ pc' = "complete"
            /\ stepCount' = IF variant \in AgentVariants THEN stepCount + 1 ELSE stepCount
            /\ calls' = calls + 1
            /\ last' = Event("call", "")
            /\ probes' = IF variant = "main" THEN probes + 1 ELSE probes
            /\ systemMsg' = SystemMessage(variant, longTermPlan, memory, failedAttempts)
            /\ UNCHANGED <<runErr, errLimit>>
       ELSE /\ pc' = "returned"
            /\ runErr' = "reached maximum number of commands"
            /\ errLimit' = config.MaxCommands
            /\ last' = Event("exhausted", "")
            /\ UNCHANGED <<stepCount, calls, probes, systemMsg>>
    /\ reply' = NoReply
    /\ flagged' = FALSE
    /\ response' = NoResponse
    /\ leaked' = FALSE
    /\ UNCHANGED <<variant, config, i, history, commandLog, longTermPlan,
                   failedAttempts, errCause, spawns, gptErrors, proposed, memory,
                   runs, replyText, provider,
                   httpResp>>

\* `continue`, or the end of the loop body: package main's i++.
NextI == IF variant \in MainVariants THEN i + 1 ELSE i

\* Complete returned an error.
CompleteFails ==
    /\ pc = "complete"
    /\ \E e \in {"failed to send request"} :
        IF OnCompleteError(variant) = "return"
        THEN /\ pc' = "returned"
             /\ runErr' = "GPT request failed"
             /\ errCause' = e
             /\ i' = i
             /\ last' = Event("gptError", e)
        ELSE /\ pc' = "loop"
             /\ i' = NextI
             /\ last' = Event("gptError", e)
             /\ UNCHANGED <<runErr, errCause>>
    /\ gptErrors' = gptErrors + 1
    /\ UNCHANGED <<variant, config, stepCount, history, commandLog, longTermPlan,
                   failedAttempts, reply, flagged, response, errLimit, calls, spawns,
                   proposed, leaked, memory, probes, systemMsg, runs, replyText, provider,
                   httpResp>>

\* memory.FailedAttempts after executeCommand (part_003) failed with err.
NoteFailure(v, attempts, command, err) ==
    IF v = "part003" /\ err # ErrEmpty THEN Append(attempts, <<command, err>>)
    ELSE attempts

\* executeCommand starting the subprocess without waiting for it.
executeCommandDetached(command) ==
    LET e == PreCheck(variant, config, commandLog, command) IN
    /\ proposed' = Append(proposed, command)
    /\ pc' = "loop"
    /\ i' = NextI
    /\ failedAttempts' = IF e # "" THEN NoteFailure(variant, failedAttempts, command, e)
                         ELSE failedAttempts
    /\ spawns' = IF e = "" /\ ~config.DryRun THEN spawns + 1 ELSE spawns
    /\ last' = IF e # "" THEN Event("rejected", e)
               ELSE IF config.DryRun THEN Event("dryRun", "") ELSE Event("spawn", "")
    /\ UNCHANGED <<history, runErr, errCause>>

\* executeCommand of package main up to the point where the subprocess is
\* spawned: the checks, then the dry-run return; a rejected or simulated
\* command returns before any log entry is built.
executeCommand(command) ==
    LET e == PreCheck(variant, config, commandLog, command) IN
    /\ proposed' = Append(proposed, command)
    /\ IF e # ""
       THEN /\ pc' = "loop"
            /\ i' = NextI
            /\ failedAttempts' = NoteFailure(variant, failedAttempts, command, e)
            /\ last' = Event("rejected", e)
            /\ UNCHANGED <<history, runErr, errCause, spawns>>
       ELSE IF config.DryRun
       THEN /\ pc' = "loop"
            /\ i' = NextI
            /\ last' = Event("dryRun", "")
            /\ UNCHANGED <<history, failedAttempts, runErr, errCause, spawns>>
       ELSE /\ pc' = "exec"
            /\ spawns' = spawns + 1
            /\ last' = Event("spawn", "")
            /\ UNCHANGED <<i, history, failedAttempts, runErr, errCause>>

\* Complete returned text: parseResponse, then the rest of the loop body up
\* to the point where a subprocess is spawned.
CompleteReplies ==
    /\ pc = "complete"
    /\ \E r \in Replies(variant) :
       LET p == ParseResponse(variant, r) IN
       /\ reply' = p
       /\ flagged' = (r.flag = "true")
       /\ response' = [thought |-> r.thought, command |-> r.command]
       /\ IF p.err = "panic"
          THEN /\ pc' = "returned"
               /\ runErr' = "panic"
               /\ last' = Event("panic", "slice bounds out of range")
               /\ UNCHANGED <<i, history, longTermPlan, failedAttempts,
                              errCause, spawns, proposed>>
          ELSE IF p.err # ""
          THEN /\ IF OnParseError(variant) = "return"
                  THEN /\ pc' = "returned"
                       /\ runErr' = "failed to parse response"
                       /\ errCause' = p.err
                       /\ i' = i
                  ELSE /\ pc' = "loop"
                       /\ i' = NextI
                       /\ UNCHANGED <<runErr, errCause>>
               /\ last' = Event("parseError", p.err)
               /\ UNCHANGED <<history, longTermPlan, failedAttempts, spawns, proposed>>
          ELSE
               /\ longTermPlan' = IF variant \in MainVariants /\ p.plan # ""
                                  THEN p.plan ELSE longTermPlan
               /\ IF SignalsCompletion(variant, p)
                  THEN /\ pc' = "returned"
                       /\ runErr' = "nil"
                       /\ last' = Event("completed", "")
                       /\ UNCHANGED <<i, history, failedAttempts, errCause, spawns,
                                      proposed>>
                  ELSE IF variant \in MainVariants
                  THEN IF p.command = ""
                       THEN /\ pc' = "loop"
                            /\ i' = NextI
                            /\ last' = Event("noCommand", "")
                            /\ UNCHANGED <<history, failedAttempts, runErr,
                                           errCause, spawns, proposed>>
                       ELSE executeCommand(p.command)
                  ELSE IF variant = "part000" /\ p.command = "TASK_COMPLETED"
                  THEN /\ pc' = "loop"
                       /\ history' = AddStep(history,
                             MakeStep(stepCount, p.thought, p.command, <<>>, ""))
                       /\ last' = Event("sentinelStep", "")
                       /\ UNCHANGED <<i, failedAttempts, runErr, errCause, spawns,
                                      proposed>>
                  ELSE IF config.DryRun
                  THEN /\ pc' = "loop"
                       /\ history' = AddStep(history,
                             MakeStep(stepCount, p.thought, p.command,
                                      DryRunOutput(variant, p.command), ""))
                       /\ last' = Event("dryRun", "")
                       /\ UNCHANGED <<i, failedAttempts, runErr, errCause, spawns,
                                      proposed>>
                  ELSE /\ pc' = "exec"
                       /\ spawns' = spawns + 1
                       /\ last' = Event("spawn", "")
                       /\ UNCHANGED <<i, history, failedAttempts, runErr, errCause,
                                      proposed>>
    /\ memory' = IF variant = "part003" /\ reply'.err = ""
                  THEN updateMemoryFromResponse(memory, "", reply'.thought)
                  ELSE memory
    /\ UNCHANGED <<variant, config, stepCount, commandLog, errLimit, calls, gptErrors,
                   leaked, probes, systemMsg, runs, replyText, provider,
                   httpResp>>

\* The backend never answers: every client is built as &http.Client{} with
\* no Timeout and sends its request under no context, so Complete blocks.
CompleteHangs ==
    /\ pc = "complete"
    /\ pc' = "waiting"
    /\ last' = Event("noResponse", "")
    /\ UNCHANGED <<variant, config, stepCount, i, history, commandLog, longTermPlan,
                   failedAttempts, reply, flagged, response, runErr, errLimit, errCause, calls,
                   spawns, gptErrors, proposed, leaked, memory, probes, systemMsg,
                   runs, replyText, provider,
                   httpResp>>

\* The subprocess turns out never to exit on its own.
ExecHangs ==
    /\ pc = "exec"
    /\ ExecOutcomes(variant, reply.command) # {"exit0"}
    /\ pc' = "hung"
    /\ last' = Event("hang", "")
    /\ UNCHANGED <<variant, config, stepCount, i, history, commandLog, longTermPlan,
                   failedAttempts, reply, flagged, response, runErr, errLimit, errCause, calls,
                   spawns, gptErrors, proposed, leaked, memory, probes, systemMsg,
                   runs, replyText, provider,
                   httpResp>>

\* The ways the pending CombinedOutput call can return.  A subprocess that
\* never exits is killed when the 30 s context of exec.CommandContext expires
\* (package agent); package main starts it with exec.Command under no
\* context, and CombinedOutput does not return.
ReturnOutcomes ==
    IF pc = "hung"
    THEN IF variant \in AgentVariants THEN {"timeout"} ELSE {}
    ELSE ExecOutcomes(variant, reply.command)

\* The command starts further processes: bash execs sudo in its own place,
\* and sudo runs ls as its child.  The kill of exec.CommandContext reaches
\* the one process it started, none of that process's children.
HasChildren(command) == command \in {"sudo ls"}

\* The subprocess ended (or was killed on the timeout): the Step, or the
\* CommandLog entry, is recorded and the loop body ends.
ExecReturns ==
    /\ pc \in {"exec", "hung"}
    /\ \E o \in ReturnOutcomes :
        /\ IF variant \in AgentVariants
           THEN /\ history' = AddStep(history,
                      MakeStep(stepCount, reply.thought, reply.command,
                               <<ExecOutput(o)>>, ExecError(o)))
                /\ UNCHANGED <<commandLog, failedAttempts>>
           ELSE /\ commandLog' = AppendLog(commandLog,
                      MakeLog(reply.command, <<ExecOutput(o)>>, ExecError(o)))
                /\ failedAttempts' =
                      IF ExecError(o) # ""
                      THEN NoteFailure(variant, failedAttempts, reply.command, ExecError(o))
                      ELSE failedAttempts
                /\ UNCHANGED history
        /\ last' = Executed(o, ExecError(o))
        /\ leaked' \in (IF o = "timeout" /\ HasChildren(reply.command)
                        THEN BOOLEAN ELSE {FALSE})
    /\ pc' = "loop"
    /\ i' = NextI
    /\ UNCHANGED <<variant, config, stepCount, longTermPlan, reply, flagged, response,
                   runErr, errLimit, errCause, calls, spawns, gptErrors, proposed,
                   memory, probes, systemMsg, runs, replyText, provider,
                   httpResp>>

Next ==
    \/ LoopHead
    \/ CompleteFails
    \/ CompleteHangs
    \/ CompleteReplies
    \/ ExecHangs
    \/ ExecReturns

Spec == Init /\ [][Next]_vars

\* The loop runs in one goroutine, which takes its next step whenever one is
\* possible.
SpecFair == Spec /\ WF_vars(Next)

----------------------------------------------------------------------------
(* The Step History on its own: any sequence of AddStep calls on a History *)
(* of any small capacity or the capacity New gives it, and any sequence of *)
(* executed commands appended to package main's command log.               *)

HistoryCapacities == (1..MaxK) \cup {AgentMaxSteps}

InitHistory ==
    /\ variant \in {"agent"} \cup MainVariants
    /\ config = [MaxCommands |-> 1, DryRun |-> FALSE, AllowedCmds |-> {}]
    /\ pc = "idle"
    /\ stepCount = 0
    /\ i = 0
    /\ \E k \in HistoryCapacities :
          history = NewHistory(IF variant = "agent" THEN k ELSE AgentMaxSteps)
    /\ commandLog = <<>>
    /\ longTermPlan = ""
    /\ failedAttempts = <<>>
    /\ reply = NoReply
    /\ flagged = FALSE
    /\ response = NoResponse
    /\ runErr = "running"
    /\ errLimit = 0
    /\ errCause = ""
    /\ calls = 0
    /\ spawns = 0
    /\ gptErrors = 0
    /\ proposed = <<>>
    /\ leaked = FALSE
    /\ memory = NewMemory
    /\ probes = StartProbes(variant)
    /\ systemMsg = <<>>
    /\ runs = 1
    /\ replyText = <<>>
    /\ provider = "any"
    /\ httpResp = NoHTTP
    /\ last = Event("start", "")

\* h.AddStep(step) with the next step number.
HistoryAddStep ==
    /\ pc = "idle"
    /\ variant = "agent"
    /\ stepCount < MaxAdds
    /\ \E e \in {"", "exit status 1"} :
          history' = AddStep(history, MakeStep(stepCount + 1, "t", "ls", <<"out">>, e))
    /\ stepCount' = stepCount + 1
    /\ UNCHANGED <<variant, config, pc, i, commandLog, longTermPlan, failedAttempts,
                   reply, flagged, response, runErr, errLimit, errCause, calls, spawns,
                   gptErrors, proposed, leaked, memory, probes, systemMsg, runs,
                   replyText, provider, httpResp, last>>

\* Commands that pass every check of executeCommand: one more than the
\* repetition window holds, so that a log of any length can be built.
LogCmds(v) ==
    IF v = "part003" THEN {"ls", "pwd", "date", "id", "env", "uname"}
    ELSE {"ls", "pwd", "date", "id"}

\* The append and trim of executeCommand with the next executed command: a
\* command reaches it only when hasCommandBeenTried did not find it.
HistoryAppendLog ==
    /\ pc = "idle"
    /\ variant \in MainVariants
    /\ stepCount < MaxAdds
    /\ \E c \in LogCmds(variant) :
          /\ ~hasCommandBeenTried(variant, commandLog, c)
          /\ commandLog' = AppendLog(commandLog, MakeLog(c, <<"out">>, ""))
    /\ stepCount' = stepCount + 1
    /\ UNCHANGED <<variant, config, pc, i, history, longTermPlan, failedAttempts,
                   reply, flagged, response, runErr, errLimit, errCause, calls, spawns,
                   gptErrors, proposed, leaked, memory, probes, systemMsg, runs,
                   replyText, provider, httpResp, last>>

NextHistory == HistoryAddStep \/ HistoryAppendLog

SpecHistory == InitHistory /\ [][NextHistory]_vars

----------------------------------------------------------------------------
(* The Command Safety Validator on its own: executeCommand of package main *)
(* applied once to a command, under any allow-list, with an empty command  *)
(* log or a log that holds an earlier run of the same command.             *)

ValidatorCmds ==
    {"ls", "cd", "cd /tmp", "  cd /tmp", "cd\t/tmp",
     "mkdir build", "mkdir -p build", "mkdir my-project",
     "echo 'a\\nb' > f", "echo \"a\\nb\" > f", "echo -e 'a\\nb' > f", "echo 'hi'",
     "sudo ls", "curl example.com", "rm -rf build", "rm -rf /", "ls; sudo rm -rf /",
     "cd a; echo 'b\\n'", "mkdir a; echo 'b\\n'", "mkdir sudo", "echo 'curl\\n'",
     "cd curl", "ls ; sudo rm -rf /"}

ValidatorAllowLists ==
    {{}, {"sudo"}, {"cd"}, {"ls"}, {"cd", "mkdir", "echo", "curl", "rm", "sudo"}}

\* Other commands that ran after the command's earlier run: each passes every
\* check and differs from the ones before it.
LaterCmds == <<"pwd", "date", "id", "env", "uname", "whoami", "hostname">>
LaterRuns(d) == [k \in 1..d |-> MakeLog(LaterCmds[k], <<"out">>, "")]

\* Other commands that ran before the command's earlier run, likewise.
BeforeCmds == <<"w", "df", "du", "ps", "free", "uptime", "arch", "tty">>
BeforeRuns(e) == [k \in 1..e |-> MakeLog(BeforeCmds[k], <<"out">>, "")]

\* The command logs executeCommand can meet when command arrives: a log
\* entry exists only for a command that was spawned.
EarlierLogs(v, cfg, command) ==
    {<<>>} \cup
    (IF ~cfg.DryRun /\ PreCheck(v, cfg, <<>>, command) = ""
     THEN {<<MakeLog(command, <<"out">>, "")>>,
           <<MakeLog(command, <<"errout">>, "exit status 1")>>}
          \cup {BeforeRuns(e) \o <<MakeLog(command, <<"out">>, "")>> \o LaterRuns(d) :
                   e \in 0..MaxBefore, d \in 1..MaxLater}
     ELSE {})

InitValidate ==
    /\ variant \in MainVariants
    /\ config \in [MaxCommands : {1}, DryRun : BOOLEAN,
                   AllowedCmds : ValidatorAllowLists]
    /\ pc = "validate"
    /\ stepCount = 0
    /\ i = 0
    /\ history = NewHistory(AgentMaxSteps)
    /\ \E c \in ValidatorCmds : reply = ParseOk("t", c, FALSE, "")
    /\ commandLog \in EarlierLogs(variant, config, reply.command)
    /\ longTermPlan = ""
    /\ failedAttempts = <<>>
    /\ flagged = FALSE
    /\ response = NoResponse
    /\ runErr = "running"
    /\ errLimit = 0
    /\ errCause = ""
    /\ calls = 1
    /\ spawns = 0
    /\ gptErrors = 0
    /\ proposed = <<>>
    /\ leaked = FALSE
    /\ memory = NewMemory
    /\ probes = StartProbes(variant)
    /\ systemMsg = <<>>
    /\ runs = 1
    /\ replyText = <<>>
    /\ provider = "any"
    /\ httpResp = NoHTTP
    /\ last = Event("call", "")

\* a.executeCommand(agentResp.Command)
Validate ==
    /\ pc = "validate"
    /\ executeCommand(reply.command)
    /\ UNCHANGED <<variant, config, stepCount, commandLog, longTermPlan, reply,
                   flagged, response, errLimit, calls, gptErrors, leaked, memory,
                   probes, systemMsg, runs, replyText, provider,
                   httpResp>>

NextValidate == Validate \/ ExecReturns

SpecValidate == InitValidate /\ [][NextValidate]_vars

----------------------------------------------------------------------------
(* Claims.                                                                 *)

\* new is old with one entry appended and, when that exceeds cap, with
\* exactly the oldest entry dropped: the rest keep their order.
FifoAppend(old, new, cap) ==
    /\ Len(new) >= 1
    /\ IF Len(old) < cap
       THEN /\ Len(new) = Len(old) + 1
            /\ SubSeq(new, 1, Len(old)) = old
       ELSE /\ Len(new) = cap
            /\ SubSeq(new, 1, cap - 1) = Tail(old)

\* C1: after any sequence of appends on a History of capacity K >= 1 the
\* History holds at most K Steps (the command log at most
\* MaxRememberedCommands entries), and an append over capacity evicts
\* exactly the oldest entry and keeps the order of the others.
C1_BoundedFifo ==
    /\ [](/\ Len(history.Steps) <= history.MaxSteps
          /\ Len(commandLog) <= MaxRememberedCommands)
    /\ [][/\ history' # history =>
               FifoAppend(history.Steps, history'.Steps, history.MaxSteps)
          /\ commandLog' # commandLog =>
               FifoAppend(commandLog, commandLog', MaxRememberedCommands)]_vars

\* C1 witness: an append has evicted the oldest Step of a full History.
C1_Witness ==
    /\ pc = "idle"
    /\ variant = "agent"
    /\ stepCount > history.MaxSteps
    /\ Len(history.Steps) = history.MaxSteps
    /\ history.Steps[1].Number = stepCount - history.MaxSteps + 1

Last(seq) == seq[Len(seq)]

\* The step just taken handled the text a completion call returned.
Replied == pc = "complete" /\ last'.event \notin {"gptError", "noResponse"}

\* C2: every Run ends DONE (nil, only after a reply signalled completion),
\* FAILED (only after a completion call failed) or EXHAUSTED (only after the
\* counter reached the budget), and never makes more than budget ticks.
C2_ThreeOutcomes ==
    /\ calls <= config.MaxCommands
    /\ pc = "returned" =>
          \/ runErr = "nil" /\ last.event = "completed"
          \/ runErr = "GPT request failed" /\ last.event = "gptError"
          \/ /\ runErr = "reached maximum number of commands"
             /\ last.event = "exhausted"
             /\ Counter = config.MaxCommands

\* C2 holds of every implementation but part_000.
C2_ExceptPart000 == variant # "part000" => C2_ThreeOutcomes

\* C3: once a completion call has failed, Run has returned an error that
\* carries the call's error, and nothing has happened since: no further
\* call, no command, no Step.
C3_CompletionFailureIsFatal ==
    gptErrors > 0 =>
        /\ pc = "returned"
        /\ runErr = "GPT request failed"
        /\ last.event = "gptError"
        /\ errCause = last.err
        /\ gptErrors = 1

\* C3 holds of every implementation but part_001.
C3_ExceptPart001 == variant # "part001" => C3_CompletionFailureIsFatal

\* C4: a parse failure does not end Run and changes nothing but the
\* counter: no Step, no log entry, no plan; the tick is charged.
C4_ParseFailureRecoverable ==
    [][(Replied /\ last'.event = "parseError") =>
          /\ pc' = "loop"
          /\ runErr' = "running"
          /\ history' = history
          /\ commandLog' = commandLog
          /\ longTermPlan' = longTermPlan
          /\ failedAttempts' = failedAttempts
          /\ spawns' = spawns
          /\ Counter' = calls']_vars

\* C4 holds of every implementation but part_000.
C4_ExceptPart000 ==
    [][(variant # "part000" /\ Replied /\ last'.event = "parseError") =>
          /\ pc' = "loop"
          /\ runErr' = "running"
          /\ history' = history
          /\ commandLog' = commandLog
          /\ longTermPlan' = longTermPlan
          /\ failedAttempts' = failedAttempts
          /\ spawns' = spawns
          /\ Counter' = calls']_vars

\* C5: a command the validation rejects is not executed, and an entry with
\* the command and the rejection's error text is appended to the History
\* the next prompt renders.
C5_RejectionRecorded ==
    [][(Replied /\ last'.event = "rejected") =>
          /\ spawns' = spawns
          /\ Len(commandLog') = Len(commandLog) + 1
          /\ Last(commandLog').Command = reply'.command
          /\ Last(commandLog').Error = last'.err]_vars

\* The part of C5 the code keeps: a rejected command is never executed.
C5_RejectedNotExecuted ==
    [][(Replied /\ last'.event = "rejected") =>
          /\ spawns' = spawns
          /\ pc' = "loop"
          /\ commandLog' = commandLog]_vars

\* The commands of the last w entries of a sequence of commands.
Recent(seq, w) ==
    {seq[k] : k \in ((IF Len(seq) > w THEN Len(seq) - w ELSE 0) + 1)..Len(seq)}

\* C6: a command handed to the executor again while its earlier occurrence
\* is among the last W commands handled is rejected with the repetition
\* error and not executed, whatever became of the earlier occurrence.
C6_RepeatRejected ==
    [][(/\ variant \in MainVariants
        /\ Replied
        /\ proposed' # proposed
        /\ Last(proposed') \in Recent(proposed, RepeatWindow(variant))) =>
          /\ last'.event = "rejected"
          /\ last'.err = ErrRepeat
          /\ spawns' = spawns]_vars

\* The part of C6 the code keeps: a command that is among the last W
\* entries of the command log is rejected with the repetition error.
C6_RepeatOfLoggedRejected ==
    [][(/\ variant \in MainVariants
        /\ Replied
        /\ proposed' # proposed
        /\ \E k \in 1..Len(commandLog) :
              /\ k > Len(commandLog) - RepeatWindow(variant)
              /\ commandLog[k].Command = Last(proposed')) =>
          /\ last'.event = "rejected"
          /\ last'.err = ErrRepeat
          /\ spawns' = spawns]_vars

\* The reply carries the completion signal of the implementation's
\* protocol: the sentinel as its command where no flag is decoded, true
\* under the completion key where one is.
HasCompletionSignal(v, p, f) ==
    \/ v \in {"agent", "part001"} /\ p.err = "" /\ p.command = "TASK_COMPLETE"
    \/ v \in {"part000", "main", "part003"} /\ f

\* C7: a reply that signals completion ends the run as DONE on that tick
\* with a nil error; its command is ignored: nothing is validated, executed
\* or appended.
C7_CompletionEndsRun ==
    [][(Replied /\ HasCompletionSignal(variant, reply', flagged')) =>
          /\ pc' = "returned"
          /\ runErr' = "nil"
          /\ calls' = calls
          /\ spawns' = spawns
          /\ proposed' = proposed
          /\ history' = history
          /\ commandLog' = commandLog
          /\ failedAttempts' = failedAttempts]_vars

\* C7 holds of every implementation but part_000.
C7_ExceptPart000 ==
    [][(/\ variant # "part000"
        /\ Replied
        /\ HasCompletionSignal(variant, reply', flagged')) =>
          /\ pc' = "returned"
          /\ runErr' = "nil"
          /\ calls' = calls
          /\ spawns' = spawns
          /\ proposed' = proposed
          /\ history' = history
          /\ commandLog' = commandLog
          /\ failedAttempts' = failedAttempts]_vars

\* C8: a run in which no reply signalled completion and no completion call
\* failed makes exactly budget calls and ends EXHAUSTED, the error naming
\* the budget.
C8_ExhaustsAfterBudget ==
    (pc = "returned" /\ runErr # "nil" /\ gptErrors = 0) =>
        /\ runErr = "reached maximum number of commands"
        /\ calls = config.MaxCommands
        /\ errLimit = config.MaxCommands

\* C8 holds of every implementation but part_000.
C8_ExceptPart000 == variant # "part000" => C8_ExhaustsAfterBudget

\* C9: the Steps of the History carry strictly increasing numbers, and a
\* Step's number is the iteration counter of the tick that appended it.
C9_StepNumbers ==
    /\ [](\A k \in 1..(Len(history.Steps) - 1) :
             history.Steps[k].Number < history.Steps[k + 1].Number)
    /\ [][history' # history =>
             /\ Last(history'.Steps).Number = stepCount
             /\ stepCount = calls
             /\ stepCount' = stepCount]_vars

\* C9 witness: two Steps whose numbers are not contiguous, a tick between
\* them having appended nothing.
C9_Witness ==
    /\ Len(history.Steps) = 2
    /\ history.Steps[1].Number = 1
    /\ history.Steps[2].Number = 3

\* C10: a Step's success flag is false exactly when its error text is not
\* empty; a dry-run Step and an exit-0 Step succeed with no error text, a
\* Step of a non-zero exit or a timeout fails with an error text.
C10_SuccessIffNoError ==
    /\ [](\A k \in 1..Len(history.Steps) :
             history.Steps[k].Success <=> history.Steps[k].Error = "")
    /\ [][history' # history =>
             LET s == Last(history'.Steps) IN
             /\ last'.event = "dryRun" => s.Success /\ s.Error = ""
             /\ last'.outcome = "exit0" => s.Success /\ s.Error = ""
             /\ last'.outcome \in {"exit1", "timeout"} => ~s.Success /\ s.Error # ""]_vars

\* C10 witness: a History holding a Step of an exit 0 and a Step of a
\* command killed on the timeout.
C10_Witness ==
    /\ Len(history.Steps) = 2
    /\ history.Steps[1].Success
    /\ ~history.Steps[2].Success
    /\ history.Steps[2].Error = "signal: killed"
    /\ last.outcome = "timeout"

\* The command's leading token is cd: it begins with a change-directory
\* invocation.
BeginsWithCd(command) == FirstField(Text(command)) = <<"c", "d">>

\* The step just taken is executeCommand's decision on the command.
Decided == pc \in {"validate", "complete"} /\ proposed' # proposed

\* C11: every command that begins with a change-directory invocation is
\* rejected and not executed, whatever the allow-list holds.
C11_CdAlwaysRejected ==
    [][(Decided /\ BeginsWithCd(Last(proposed'))) =>
          /\ last'.event = "rejected"
          /\ spawns' = spawns]_vars

\* The part of C11 the code keeps: a command whose trimmed text starts with
\* cd and a space is rejected with the cd error under every allow-list.
C11_CdSpaceRejected ==
    [][(Decided /\ HasPrefix(TrimSpace(Text(Last(proposed'))), <<"c", "d", " ">>)) =>
          /\ last'.event = "rejected"
          /\ last'.err = ErrCd
          /\ spawns' = spawns]_vars

\* Some pattern of the blocklist occurs in the command's text.
HoldsBlocklisted(command) ==
    \E k \in DOMAIN dangerousCommands :
        \E at \in 1..Len(Text(command)) :
            /\ at + Len(dangerousCommands[k]) - 1 <= Len(Text(command))
            /\ SubSeq(Text(command), at, at + Len(dangerousCommands[k]) - 1)
                  = dangerousCommands[k]

\* The command's leading whitespace-separated token is in the allow-list.
LeadingTokenAllowed(cfg, command) ==
    \E a \in cfg.AllowedCmds : Text(a) = FirstField(Text(command))

\* C12: a command that holds a blocklisted substring is rejected and not
\* executed unless its leading token is allow-listed; the blocklist error is
\* given to no command without such a substring and to no command whose
\* leading token is allow-listed.
C12_Blocklist ==
    [][Decided =>
          LET c == Last(proposed') IN
          /\ (HoldsBlocklisted(c) /\ ~LeadingTokenAllowed(config, c)) =>
                /\ last'.event = "rejected"
                /\ spawns' = spawns
                /\ pc' # "exec"
          /\ ~HoldsBlocklisted(c) => last'.err # ErrDangerous
          /\ LeadingTokenAllowed(config, c) => last'.err # ErrDangerous]_vars

\* C12 witness: a command whose later part holds blocklisted text was
\* rejected by the blocklist although sudo is allow-listed, its leading
\* token being ls.
C12_Witness ==
    /\ pc = "loop"
    /\ proposed = <<"ls; sudo rm -rf /">>
    /\ config.AllowedCmds = {"sudo"}
    /\ last.event = "rejected"
    /\ last.err = ErrDangerous
    /\ spawns = 0

\* Some whitespace-separated token of the text is exactly opt.
HasToken(s, opt) ==
    \E at \in 1..Len(s) :
        /\ at + Len(opt) - 1 <= Len(s)
        /\ SubSeq(s, at, at + Len(opt) - 1) = opt
        /\ at = 1 \/ IsSpace(s[at - 1])
        /\ at + Len(opt) - 1 = Len(s) \/ IsSpace(s[at + Len(opt)])

\* A directory-creation command that does not ask for the idempotent form:
\* its leading token is mkdir and none of its tokens is the option -p.
IsPlainMkdir(command) ==
    /\ FirstField(Text(command)) = <<"m", "k", "d", "i", "r">>
    /\ ~HasToken(Text(command), <<"-", "p">>)

\* C13: every mkdir command without the -p option is rejected with the
\* mkdir guidance, a command whose arguments merely hold the characters -p
\* included.
C13_PlainMkdirRejected ==
    [][(Decided /\ IsPlainMkdir(Last(proposed'))) =>
          /\ last'.event = "rejected"
          /\ last'.err = ErrMkdir
          /\ spawns' = spawns]_vars

\* The part of C13 the code keeps: a mkdir command in whose text the
\* characters -p occur nowhere is rejected with the mkdir guidance.
C13_MkdirWithoutDashPRejected ==
    [][(/\ Decided
        /\ HasPrefix(TrimSpace(Text(Last(proposed'))), <<"m", "k", "d", "i", "r", " ">>)
        /\ \A at \in 1..(Len(Text(Last(proposed'))) - 1) :
              ~(/\ Text(Last(proposed'))[at] = "-"
                /\ Text(Last(proposed'))[at + 1] = "p")) =>
          /\ last'.event = "rejected"
          /\ last'.err = ErrMkdir
          /\ spawns' = spawns]_vars

\* The text sub occurs in the text s.
Occurs(s, sub) ==
    \E at \in 1..Len(s) :
        /\ at + Len(sub) - 1 <= Len(s)
        /\ SubSeq(s, at, at + Len(sub) - 1) = sub

\* A shell echo combined with a literal newline escape: the leading token is
\* echo and a backslash followed by n occurs in the text.
IsEchoWithNewlineEscape(command) ==
    /\ FirstField(Text(command)) = <<"e", "c", "h", "o">>
    /\ Occurs(Text(command), <<"\\", "n">>)

\* C14: every echo command with literal newline escapes is rejected with the
\* heredoc guidance, whatever its quoting style and its flags.
C14_EchoNewlineRejected ==
    [][(Decided /\ IsEchoWithNewlineEscape(Last(proposed'))) =>
          /\ last'.event = "rejected"
          /\ last'.err = ErrEcho
          /\ spawns' = spawns]_vars

\* The part of C14 the code keeps: the command is rejected when a single
\* quote follows echo and one space directly.
C14_EchoSingleQuoteRejected ==
    [][(/\ Decided
        /\ IsEchoWithNewlineEscape(Last(proposed'))
        /\ Occurs(Text(Last(proposed')), <<"e", "c", "h", "o", " ", "'">>)) =>
          /\ last'.event = "rejected"
          /\ last'.err = ErrEcho
          /\ spawns' = spawns]_vars

\* The output, a sequence of text parts, holds the command's text as a part.
Embeds(output, command) == \E k \in DOMAIN output : output[k] = command

\* C15: a dry-run execution spawns nothing and reports success; its output
\* embeds the command's text and is a function of that text alone: equal
\* commands give equal outputs, different commands different outputs.
C15_DryRunOutput ==
    /\ [][(Replied /\ last'.event = "dryRun") =>
             /\ spawns' = spawns
             /\ pc' = "loop"
             /\ history' # history =>
                   /\ Last(history'.Steps).Success
                   /\ Last(history'.Steps).Error = ""
                   /\ Embeds(Last(history'.Steps).Output, Last(history'.Steps).Command)]_vars
    /\ [](config.DryRun =>
             \A j, k \in 1..Len(history.Steps) :
                 (history.Steps[j].Command = history.Steps[k].Command)
                     <=> (history.Steps[j].Output = history.Steps[k].Output))

\* The part of C15 the code keeps: nothing is spawned, success is reported,
\* and equal commands give equal outputs.
C15_DryRunDeterministic ==
    /\ [][(Replied /\ last'.event = "dryRun") =>
             /\ spawns' = spawns
             /\ pc' = "loop"
             /\ history' # history =>
                   /\ Last(history'.Steps).Success
                   /\ Last(history'.Steps).Error = ""]_vars
    /\ [](config.DryRun =>
             /\ spawns = 0
             /\ \A j, k \in 1..Len(history.Steps) :
                   (history.Steps[j].Command = history.Steps[k].Command)
                       => (history.Steps[j].Output = history.Steps[k].Output))

\* C16: a dry-run tick with an accepted, non-completing command appends one
\* entry to the History the next prompt renders: the command, the dry-run
\* template holding the literal command as output, and success.
C16_DryRunRecorded ==
    [][(Replied /\ last'.event = "dryRun") =>
          /\ variant \in AgentVariants =>
                /\ Len(history'.Steps) = Len(history.Steps) + 1
                /\ Last(history'.Steps).Command = reply'.command
                /\ Last(history'.Steps).Success
                /\ Embeds(Last(history'.Steps).Output, reply'.command)
          /\ variant \in MainVariants =>
                /\ Len(commandLog') = Len(commandLog) + 1
                /\ Last(commandLog').Command = reply'.command
                /\ Last(commandLog').Error = ""
                /\ Embeds(Last(commandLog').Output, reply'.command)]_vars

\* The part of C16 the code keeps: package agent appends a successful Step
\* that holds the command; package main appends nothing.
C16_DryRunStepInPackageAgent ==
    [][(Replied /\ last'.event = "dryRun") =>
          /\ variant \in AgentVariants =>
                /\ Len(history'.Steps) = Len(history.Steps) + 1
                /\ Last(history'.Steps).Command = reply'.command
                /\ Last(history'.Steps).Success
          /\ variant \in MainVariants =>
                /\ commandLog' = commandLog
                /\ history' = history]_vars

\* C17: a command that exits non-zero or is killed on the timeout appends
\* exactly one entry with the captured output and a non-empty error text
\* (a Step with success false in package agent), Run does not return, and
\* while budget remains the next tick begins.
C17_ExecutionFailureRecoverable ==
    /\ [][(pc \in {"exec", "hung"} /\ last'.outcome \in {"exit1", "timeout"}) =>
             /\ pc' = "loop"
             /\ runErr' = "running"
             /\ variant \in AgentVariants =>
                   /\ Len(history'.Steps) = Len(history.Steps) + 1
                   /\ SubSeq(history'.Steps, 1, Len(history.Steps)) = history.Steps
                   /\ ~Last(history'.Steps).Success
                   /\ Last(history'.Steps).Error # ""
                   /\ Last(history'.Steps).Command = reply.command
                   /\ Last(history'.Steps).Output =
                         <<IF last'.outcome = "exit1" THEN "errout" ELSE "">>
                   /\ commandLog' = commandLog
             /\ variant \in MainVariants =>
                   /\ Len(commandLog') = Len(commandLog) + 1
                   /\ SubSeq(commandLog', 1, Len(commandLog)) = commandLog
                   /\ Last(commandLog').Error # ""
                   /\ Last(commandLog').Command = reply.command
                   /\ Last(commandLog').Output = <<"errout">>
                   /\ history' = history]_vars
    /\ [][(/\ pc = "loop"
           /\ last.outcome \in {"exit1", "timeout"}
           /\ Counter < config.MaxCommands) =>
             /\ pc' = "complete"
             /\ calls' = calls + 1]_vars

\* C17 witness: after a command that exited non-zero on tick 1 the loop has
\* begun tick 2 and made its completion call.
C17_Witness ==
    /\ pc = "complete"
    /\ calls = 2
    /\ runErr = "running"
    /\ Len(history.Steps) = 1
    /\ ~history.Steps[1].Success
    /\ history.Steps[1].Error = "exit status 1"
    /\ history.Steps[1].Output = <<"errout">>

\* C18: every live Execute call returns: a subprocess that does not exit on
\* its own is killed on the timeout and the call returns a timeout error,
\* so the loop goes on.
C18_ExecuteTimeBounded ==
    /\ (pc \in {"exec", "hung"}) ~> (pc = "loop")
    /\ [][(pc = "hung" /\ pc' # "hung") =>
             /\ last'.outcome = "timeout"
             /\ last'.err # ""]_vars

\* The part of C18 the code keeps: package agent runs the subprocess under a
\* 30 s context and its Execute call always returns.
C18_PackageAgentTimeBounded ==
    /\ (variant \in AgentVariants /\ pc \in {"exec", "hung"}) ~> (pc = "loop")
    /\ [][(pc = "hung" /\ pc' # "hung") =>
             /\ last'.outcome = "timeout"
             /\ last'.err # ""]_vars

\* C19: when Execute returns from a command killed on the timeout, no
\* descendant of that command is still running.
C19_NoDescendantSurvivesTimeout ==
    [][(pc \in {"exec", "hung"} /\ pc' = "loop" /\ last'.outcome = "timeout") =>
          ~leaked']_vars

\* The part of C19 the code keeps: the process Execute started is itself
\* killed, so a command without children leaves nothing running.
C19_ChildlessCommandLeavesNothing ==
    [][(/\ pc \in {"exec", "hung"}
        /\ pc' = "loop"
        /\ last'.outcome = "timeout"
        /\ ~HasChildren(reply.command)) =>
          ~leaked']_vars

\* C20: both suspension points are time-bounded: a pending completion call
\* and a pending subprocess call each eventually return, so Run never stays
\* blocked in one of them.
C20_SuspensionPointsTimeBounded ==
    /\ (pc \in {"complete", "waiting"}) ~> (pc \in {"loop", "exec", "returned"})
    /\ (pc \in {"exec", "hung"}) ~> (pc \in {"loop", "returned"})

----------------------------------------------------------------------------
(* The ordinary tick.                                                      *)

\* The reply's text is a non-completing object holding a thought and one of
\* the commands, with no sentinel and no true completion flag.
OrdinaryReply ==
    /\ response.thought # ""
    /\ response.command \in Cmds
    /\ ~flagged

\* The Step an ordinary tick is to leave behind for the given output.
StepOfReply(number, output) ==
    [Number |-> number, Thought |-> response.thought,
     Command |-> response.command, Output |-> output, Error |-> "",
     Success |-> TRUE]

\* C21: in package agent, a non-completing reply holding a thought and a
\* command is run (outside dry-run mode); when the command exits 0 on tick n
\* exactly one Step is appended, numbered n, holding the thought and the
\* command written in the reply and success true; and with n below the budget
\* the loop goes on to tick n + 1.
C21_OrdinaryTick ==
    [][/\ (/\ variant \in AgentVariants
           /\ Replied
           /\ OrdinaryReply'
           /\ ~config.DryRun)
          => pc' = "exec"
       /\ (/\ variant \in AgentVariants
           /\ pc \in {"exec", "hung"}
           /\ last'.outcome = "exit0")
          => /\ history'.Steps =
                   Append(history.Steps,
                          StepOfReply(stepCount, Last(history'.Steps).Output))
             /\ pc' = "loop"
       /\ (/\ variant \in AgentVariants
           /\ pc = "loop"
           /\ last.event = "executed"
           /\ last.outcome = "exit0"
           /\ stepCount < config.MaxCommands)
          => /\ pc' = "complete"
             /\ stepCount' = stepCount + 1
             /\ calls' = calls + 1
      ]_vars

\* The part of C21 the code keeps: agent.go and part_001 decode the reply
\* with encoding/json, and their ordinary tick is the one C21 describes.
C21_ExceptPart000 ==
    [][/\ (/\ variant \in {"agent", "part001"}
           /\ Replied
           /\ OrdinaryReply'
           /\ ~config.DryRun)
          => pc' = "exec"
       /\ (/\ variant \in {"agent", "part001"}
           /\ pc \in {"exec", "hung"}
           /\ last'.outcome = "exit0")
          => /\ history'.Steps =
                   Append(history.Steps,
                          StepOfReply(stepCount, Last(history'.Steps).Output))
             /\ Len(history'.Steps) = Len(history.Steps) + 1
             /\ pc' = "loop"
       /\ (/\ variant \in {"agent", "part001"}
           /\ pc = "loop"
           /\ last.event = "executed"
           /\ last.outcome = "exit0"
           /\ stepCount < config.MaxCommands)
          => /\ pc' = "complete"
             /\ stepCount' = stepCount + 1
      ]_vars

----------------------------------------------------------------------------
(* Context Renderer.  The text handed to the completion service is a       *)
(* sequence of lines, each the label the format string starts with and the *)
(* value formatted after it.                                               *)

RecentShown == 5
RecentOutputLimit == 200
LastOutputLimit == 500

\* output != "" for an output held as its pieces.
IsEmptyOutput(output) == \A k \in 1..Len(output) : output[k] = ""

\* len(output) in bytes, for the outputs the runs of the model produce.
OutputLength(output) ==
    IF IsEmptyOutput(output) THEN 0
    ELSE IF output = <<"out">> THEN 3
    ELSE IF output = <<"errout">> THEN 6
    ELSE 40

\* output[:limit] + "... [truncated]" for an output longer than limit.
Truncate(output, limit) ==
    IF OutputLength(output) > limit
    THEN <<"first bytes of", output, "... [truncated]">>
    ELSE output

\* The lines History.GetContext writes for one Step; part_001's GetContext
\* has no Output line.
StepLines(v, step) ==
    <<Line("Step", step.Number), Line("Thought", step.Thought),
      Line("Command", step.Command)>>
    \o (IF v # "part001" /\ ~IsEmptyOutput(step.Output)
        THEN <<Line("Output", step.Output)>> ELSE <<>>)
    \o (IF step.Error # "" THEN <<Line("Error", step.Error)>> ELSE <<>>)
    \o <<Line("Success", step.Success)>>

RECURSIVE AllStepLines(_, _)
AllStepLines(v, steps) ==
    IF steps = <<>> THEN <<>>
    ELSE StepLines(v, Head(steps)) \o AllStepLines(v, Tail(steps))

\* History.GetContext.
GetContext(v, h) ==
    IF Len(h.Steps) = 0 THEN <<Line("No previous commands executed.", "")>>
    ELSE <<Line("Previous command history:", "")>> \o AllStepLines(v, h.Steps)

\* The windows of part_003's buildUserMessage.
RecentShownPart003 == 7
RecentOutputLimitPart003 == 150
LastOutputLimitPart003 == 400
InsightsShown == 3

\* A user message that shows the last entry of the command log only.
ShownLastOnly(v) == 1

\* How many entries of the command log the user message shows.
Shown(v) == IF v = "part003" THEN RecentShownPart003 ELSE RecentShown

\* The lines buildUserMessage writes for one entry of the recent history.
LogLines(v, entry) ==
    <<Line(IF entry.Error # "" THEN "failed" ELSE "ok", entry.Command)>>
    \o (IF ~IsEmptyOutput(entry.Output)
        THEN <<Line("   Output",
                    Truncate(entry.Output,
                             IF v = "part003" THEN RecentOutputLimitPart003
                             ELSE RecentOutputLimit))>>
        ELSE <<>>)
    \o (IF entry.Error # "" THEN <<Line("   Error", entry.Error)>> ELSE <<>>)

RECURSIVE AllLogLines(_, _)
AllLogLines(v, log) ==
    IF log = <<>> THEN <<>>
    ELSE LogLines(v, Head(log)) \o AllLogLines(v, Tail(log))

\* buildUserMessage of package main.  main.go: the plan, the last
\* RecentShown entries of the command log, the last entry once more, and the
\* count.  part_003: the session's counts first, the last RecentShownPart003
\* entries, the last entry once more, and the last InsightsShown findings.
buildUserMessage(v, log, plan, mem, failed) ==
    IF Len(log) = 0
    THEN <<Line("No commands executed yet.", "")>>
         \o (IF v = "part003" THEN <<Line("Project Analysis:", "repo")>> ELSE <<>>)
    ELSE LET start == IF Len(log) > Shown(v) THEN Len(log) - Shown(v) ELSE 0
             lastLog == log[Len(log)]
             from == IF Len(mem.KeyFindings) - InsightsShown < 0 THEN 0
                     ELSE Len(mem.KeyFindings) - InsightsShown
         IN (IF v = "part003"
             THEN <<Line("SESSION INFO:", ""), Line("Commands executed", Len(log)),
                    Line("Completed steps", Len(mem.CompletedSteps)),
                    Line("Failed attempts", Len(failed))>>
             ELSE <<>>)
            \o (IF plan # "" THEN <<Line("CURRENT PLAN:", plan)>> ELSE <<>>)
            \o <<Line("RECENT COMMAND HISTORY:", "")>>
            \o AllLogLines(v, SubSeq(log, start + 1, Len(log)))
            \o <<Line("LAST COMMAND RESULT:", ""), Line("Command", lastLog.Command)>>
            \o (IF ~IsEmptyOutput(lastLog.Output)
                THEN <<Line("Output",
                            Truncate(lastLog.Output,
                                     IF v = "part003" THEN LastOutputLimitPart003
                                     ELSE LastOutputLimit))>>
                ELSE <<>>)
            \o (IF lastLog.Error # "" THEN <<Line("Error", lastLog.Error)>> ELSE <<>>)
            \o (IF v = "part003"
                THEN ItemLines("insight",
                               SubSeq(mem.KeyFindings, from + 1, Len(mem.KeyFindings)))
                ELSE <<Line("Commands executed", Len(log))>>)

\* The user message of the next completion call.
UserMessage ==
    IF variant \in AgentVariants THEN GetContext(variant, history)
    ELSE buildUserMessage(variant, commandLog, longTermPlan, memory, failedAttempts)

\* The lines of text between the k-th line labelled mark and the next one.
Block(text, mark, k) ==
    LET starts == {j \in 1..Len(text) : text[j].label = mark}
        from == CHOOSE j \in starts : Cardinality({m \in starts : m <= j}) = k
        rest == {m \in starts : m > from}
        to == IF rest = {} THEN Len(text)
              ELSE (CHOOSE m \in rest : \A n \in rest : m <= n) - 1
    IN SubSeq(text, from, to)

\* The text holds, in its k-th block of Step lines, the given Step in full.
ShowsStep(text, k, step) ==
    /\ Cardinality({j \in 1..Len(text) : text[j].label = "Step"}) >= k
    /\ LET b == Block(text, "Step", k)
           Has(l) == \E j \in 1..Len(b) : b[j] = l
           Labelled(s) == \E j \in 1..Len(b) : b[j].label = s
       IN /\ Has(Line("Step", step.Number))
          /\ Has(Line("Thought", step.Thought))
          /\ Has(Line("Command", step.Command))
          /\ IF IsEmptyOutput(step.Output) THEN ~Labelled("Output")
             ELSE Has(Line("Output", step.Output))
          /\ IF step.Error = "" THEN ~Labelled("Error")
             ELSE Has(Line("Error", step.Error))
          /\ Has(Line("Success", step.Success))

\* C22: the rendered context shows every Step the History holds, oldest
\* first, each with its number, thought, command, output (left out only when
\* empty), error (left out only when empty) and success flag as stored.
C22_RenderFaithful ==
    variant \in AgentVariants =>
        /\ Cardinality({j \in 1..Len(UserMessage) : UserMessage[j].label = "Step"})
              = Len(history.Steps)
        /\ \A k \in 1..Len(history.Steps) :
              ShowsStep(UserMessage, k, history.Steps[k])

\* The part of C22 the code keeps: GetContext of agent.go and of part_000
\* shows every retained Step in full.
C22_ExceptPart001 ==
    variant \in {"agent", "part000"} =>
        /\ Cardinality({j \in 1..Len(UserMessage) : UserMessage[j].label = "Step"})
              = Len(history.Steps)
        /\ Len(history.Steps) =
              Cardinality({j \in 1..Len(UserMessage) : UserMessage[j].label = "Success"})
        /\ \A k \in 1..Len(history.Steps) :
              ShowsStep(UserMessage, k, history.Steps[k])

----------------------------------------------------------------------------
(* The memory of part_003 on its own: a run whose replies report progress  *)
(* and findings and propose no command.                                    *)

InitMemory ==
    /\ variant = "part003"
    /\ config = [MaxCommands |-> MaxAdds, DryRun |-> FALSE, AllowedCmds |-> {}]
    /\ pc = "loop"
    /\ stepCount = 0
    /\ i = 0
    /\ history = NewHistory(AgentMaxSteps)
    /\ commandLog = <<>>
    /\ longTermPlan = ""
    /\ failedAttempts = <<>>
    /\ reply = NoReply
    /\ flagged = FALSE
    /\ response = NoResponse
    /\ runErr = "running"
    /\ errLimit = 0
    /\ errCause = ""
    /\ calls = 0
    /\ spawns = 0
    /\ gptErrors = 0
    /\ proposed = <<>>
    /\ leaked = FALSE
    /\ memory = NewMemory
    /\ probes = StartProbes(variant)
    /\ systemMsg = <<>>
    /\ runs = 1
    /\ replyText = <<>>
    /\ provider = "any"
    /\ httpResp = NoHTTP
    /\ last = Event("start", "")

\* The progress texts a reply may report: none, the one reported last, or
\* one not reported before; and likewise its thought.
ProgressReports(mem) ==
    {""} \cup {ProgressNames[k] :
                  k \in {Len(mem.CompletedSteps), Len(mem.CompletedSteps) + 1} \ {0}}
ThoughtsReported(mem) == {"t", FindingNames[Len(mem.KeyFindings) + 1]}

\* Complete returned {"thought": ..., "progress": ..., "done": false}: the
\* memory is updated and, no command being proposed, the loop continues.
ProgressReply ==
    /\ pc = "complete"
    /\ variant = "part003"
    /\ \E progress \in ProgressReports(memory), thought \in ThoughtsReported(memory) :
          /\ reply' = ParseOk(thought, "", FALSE, "")
          /\ response' = [thought |-> thought, command |-> ""]
          /\ memory' = updateMemoryFromResponse(memory, progress, thought)
    /\ pc' = "loop"
    /\ i' = NextI
    /\ last' = Event("noCommand", "")
    /\ UNCHANGED <<variant, config, stepCount, history, commandLog, longTermPlan,
                   failedAttempts, flagged, runErr, errLimit, errCause, calls, spawns,
                   gptErrors, proposed, leaked, probes, systemMsg, runs, replyText, provider,
                   httpResp>>

NextMemory == LoopHead \/ ProgressReply

SpecMemory == InitMemory /\ [][NextMemory]_vars

\* The lines of text that carry the given label.
Items(text, label) == Cardinality({j \in 1..Len(text) : text[j].label = label})

\* The capacity of what the implementation remembers of its commands.
Capacity == IF variant \in AgentVariants THEN history.MaxSteps ELSE MaxRememberedCommands

\* C23: no section of the system message or of the user message holds more
\* per-step entries than the History capacity, however many ticks were made.
C23_PromptItemsBounded ==
    LET sys == SystemMessage(variant, longTermPlan, memory, failedAttempts)
    IN /\ \A label \in {"completed", "finding", "failure"} : Items(sys, label) <= Capacity
       /\ Items(UserMessage, "Step") <= Capacity
       /\ Items(UserMessage, "ok") + Items(UserMessage, "failed") <= Capacity

\* The part of C23 the code keeps: the user message holds at most one entry
\* per retained Step or log entry, and the failures section at most
\* FailuresShown entries.
C23_HistoryItemsBounded ==
    /\ Items(UserMessage, "Step") <= Capacity
    /\ Items(UserMessage, "ok") + Items(UserMessage, "failed") <= Shown(variant)
    /\ Items(SystemMessage(variant, longTermPlan, memory, failedAttempts), "failure")
          <= FailuresShown

\* C24: the system text is the same on every completion call of a run, and
\* the environment is probed for it at most once.
C24_SystemPromptStatic ==
    /\ [][(pc = "loop" /\ pc' = "complete" /\ calls >= 1) => systemMsg' = systemMsg]_vars
    /\ [](probes <= 1)

\* The part of C24 the code keeps: package agent builds its system text
\* once, before the loop, and part_000 asks for the working directory once.
C24_StaticInPackageAgent ==
    /\ [][(variant \in AgentVariants /\ pc = "loop" /\ pc' = "complete" /\ calls >= 1)
            => (systemMsg' = systemMsg /\ probes' = probes)]_vars
    /\ [](variant \in AgentVariants => probes = StartProbes(variant))

----------------------------------------------------------------------------
(* Response Parser on reply texts.  A text is a sequence of tokens: the    *)
(* brace, quote, colon, comma, blank, newline and fence characters, and    *)
(* words.  A string literal is a quote, its content and a quote.           *)

Quote == "\""
\* The fence marker: three backquotes.
Fence == "fence"
Blanks == {" ", "\n"}

\* len(token) in bytes.
Bytes(token) ==
    CASE token \in {"{", "}", Quote, ":", ",", " ", "\n", "x", "p", "g"} -> 1
      [] token \in {Fence, "see"} -> 3
      [] token \in {"json", "true", "done", "plan", "meta", "oops", "note"} -> 4
      [] token = "false" -> 5
      [] token = "ls -la" -> 6
      [] token \in {"thought", "command", "explore"} -> 7
      [] token = "progress" -> 8
      [] token = "completed" -> 9
      [] token = "a thought that is fifty bytes long" -> 50

RECURSIVE ByteLen(_)
ByteLen(s) == IF s = <<>> THEN 0 ELSE Bytes(Head(s)) + ByteLen(Tail(s))

\* strings.Index and strings.LastIndex for a one-character pattern, as a
\* position in the token sequence; 0 when the pattern does not occur.
Index(s, token) ==
    IF \E k \in 1..Len(s) : s[k] = token
    THEN CHOOSE k \in 1..Len(s) : s[k] = token /\ \A j \in 1..(k - 1) : s[j] # token
    ELSE 0
LastIndex(s, token) ==
    IF \E k \in 1..Len(s) : s[k] = token
    THEN CHOOSE k \in 1..Len(s) : s[k] = token /\ \A j \in (k + 1)..Len(s) : s[j] # token
    ELSE 0

\* s[from:] as a token sequence (from is a position, 1-based).
From(s, from) == SubSeq(s, from, Len(s))

\* strings.TrimSpace
RECURSIVE TrimLeft(_)
TrimLeft(s) == IF s # <<>> /\ Head(s) \in Blanks THEN TrimLeft(Tail(s)) ELSE s
RECURSIVE TrimRight(_)
TrimRight(s) ==
    IF s # <<>> /\ s[Len(s)] \in Blanks THEN TrimRight(SubSeq(s, 1, Len(s) - 1)) ELSE s
TrimBlanks(s) == TrimRight(TrimLeft(s))

\* strings.Split(s, "\n")
RECURSIVE SplitLines(_)
SplitLines(s) ==
    LET n == Index(s, "\n")
    IN IF n = 0 THEN <<s>>
       ELSE <<SubSeq(s, 1, n - 1)>> \o SplitLines(From(s, n + 1))

\* strings.Join(lines, "\n")
RECURSIVE JoinLines(_)
JoinLines(lines) ==
    IF lines = <<>> THEN <<>>
    ELSE IF Len(lines) = 1 THEN lines[1]
    ELSE lines[1] \o <<"\n">> \o JoinLines(Tail(lines))

\* The loop of package main's parseResponse over the lines of a reply that
\* starts with a fence: the lines between the first fence line and the next.
RECURSIVE FencedLines(_, _)
FencedLines(lines, inJson) ==
    IF lines = <<>> THEN <<>>
    ELSE IF Head(lines) # <<>> /\ Head(lines)[1] = Fence
         THEN IF inJson THEN <<>> ELSE FencedLines(Tail(lines), TRUE)
    ELSE IF inJson THEN <<Head(lines)>> \o FencedLines(Tail(lines), inJson)
    ELSE FencedLines(Tail(lines), inJson)

\* The clean-up at the head of package main's parseResponse.
StripFence(resp) ==
    LET r == TrimBlanks(resp)
    IN IF r # <<>> /\ r[1] = Fence THEN JoinLines(FencedLines(SplitLines(r), FALSE))
       ELSE r

\* The scan of extractJSON (agent.go): the position of the closing brace
\* that brings braceCount back to zero, 0 when there is none.
RECURSIVE MatchBrace(_, _, _)
MatchBrace(resp, k, braceCount) ==
    IF k > Len(resp) THEN 0
    ELSE IF resp[k] = "{" THEN MatchBrace(resp, k + 1, braceCount + 1)
    ELSE IF resp[k] = "}"
         THEN IF braceCount - 1 = 0 THEN k ELSE MatchBrace(resp, k + 1, braceCount - 1)
    ELSE MatchBrace(resp, k + 1, braceCount)

\* extractJSON of agent.go; <<>> is its empty string.
extractJSON(resp) ==
    LET start == Index(resp, "{")
    IN IF start = 0 THEN <<>>
       ELSE LET end == MatchBrace(resp, start, 0)
            IN IF end = 0 THEN <<>> ELSE SubSeq(resp, start, end)

\* encoding/json on an object text.  The fields an object can carry, and
\* the value of each: absent, a string (its content), a boolean or an object.
Keys == {"thought", "command", "completed", "done", "plan", "progress", "meta"}
Absent == [kind |-> "absent", val |-> <<>>]
NoFields == [key \in Keys |-> Absent]
Invalid == [ok |-> FALSE, obj |-> NoFields]

\* The value scanner of the decoder: the state after token k in state st.
RECURSIVE Scan(_, _, _, _, _, _)
Scan(toks, k, st, key, acc, obj) ==
    LET Put(kind, val) == IF key \in Keys
                          THEN [obj EXCEPT ![key] = [kind |-> kind, val |-> val]]
                          ELSE obj
    IN
    IF k > Len(toks) THEN (IF st = "end" THEN [ok |-> TRUE, obj |-> obj] ELSE Invalid)
    ELSE LET t == toks[k] IN
    IF st \notin {"keyname", "strval"} /\ t \in Blanks
    THEN Scan(toks, k + 1, st, key, acc, obj)
    ELSE CASE st = "open" ->
                IF t = "{" THEN Scan(toks, k + 1, "first", key, acc, obj) ELSE Invalid
           [] st = "first" ->
                IF t = Quote THEN Scan(toks, k + 1, "keyname", "", <<>>, obj)
                ELSE IF t = "}" THEN Scan(toks, k + 1, "end", key, acc, obj)
                ELSE Invalid
           [] st = "member" ->
                IF t = Quote THEN Scan(toks, k + 1, "keyname", "", <<>>, obj) ELSE Invalid
           [] st = "keyname" ->
                IF t = Quote THEN Scan(toks, k + 1, "colon", key, acc, obj)
                ELSE Scan(toks, k + 1, "keyname", t, acc, obj)
           [] st = "colon" ->
                IF t = ":" THEN Scan(toks, k + 1, "value", key, acc, obj) ELSE Invalid
           [] st = "value" ->
                IF t = Quote THEN Scan(toks, k + 1, "strval", key, <<>>, obj)
                ELSE IF t \in {"true", "false"}
                     THEN Scan(toks, k + 1, "after", key, acc, Put("bool", <<t>>))
                ELSE IF t = "{" THEN Scan(toks, k + 1, "nested", key, acc, obj)
                ELSE Invalid
           [] st = "nested" ->
                IF t = "}" THEN Scan(toks, k + 1, "after", key, acc, Put("object", <<>>))
                ELSE Invalid
           [] st = "strval" ->
                IF t = Quote THEN Scan(toks, k + 1, "after", key, acc, Put("string", acc))
                ELSE Scan(toks, k + 1, "strval", key, acc \o <<t>>, obj)
           [] st = "after" ->
                IF t = "," THEN Scan(toks, k + 1, "member", key, acc, obj)
                ELSE IF t = "}" THEN Scan(toks, k + 1, "end", key, acc, obj)
                ELSE Invalid
           [] st = "end" -> Invalid

\* json.Unmarshal of an object text into a struct whose string fields are
\* strs and whose boolean fields are bools: a syntax error, or a value of the
\* wrong kind for a field, is an error; other fields are ignored.
Unmarshal(jsonStr, strs, bools) ==
    LET d == Scan(jsonStr, 1, "open", "", <<>>, NoFields)
    IN IF ~d.ok THEN Invalid
       ELSE IF \/ \E key \in strs : d.obj[key].kind \notin {"absent", "string"}
               \/ \E key \in bools : d.obj[key].kind \notin {"absent", "bool"}
            THEN Invalid
       ELSE d

\* What parseResponse returns for a text: an error, or the decoded fields.
TextOk(thought, command, completed, plan, progress) ==
    [err |-> "", thought |-> thought, command |-> command, completed |-> completed,
     plan |-> plan, progress |-> progress]
TextErr(e) ==
    [err |-> e, thought |-> <<>>, command |-> <<>>, completed |-> FALSE,
     plan |-> <<>>, progress |-> <<>>]

\* parseResponse and parseJSON of agent.go (the same in part_001).
parseResponseAgent(resp) ==
    LET jsonStr == extractJSON(resp)
    IN IF jsonStr = <<>> THEN TextErr("no JSON found in response")
       ELSE LET d == Unmarshal(jsonStr, {"thought", "command"}, {})
            IN IF ~d.ok THEN TextErr("failed to parse JSON")
               ELSE IF d.obj["thought"].val = <<>> \/ d.obj["command"].val = <<>>
                    THEN TextErr("missing required fields in JSON response")
               ELSE TextOk(d.obj["thought"].val, d.obj["command"].val, FALSE, <<>>, <<>>)

\* parseResponse of main.go (the same in part_003).
parseResponseMain(resp) ==
    LET r == StripFence(resp)
        start == Index(r, "{")
        end == LastIndex(r, "}")
    IN IF start = 0 \/ end = 0 \/ start >= end
       THEN TextErr("no valid JSON found in response")
       ELSE LET d == Unmarshal(SubSeq(r, start, end),
                               {"thought", "command", "plan", "progress"}, {"done"})
            IN IF ~d.ok THEN TextErr("failed to parse JSON")
               ELSE TextOk(d.obj["thought"].val, d.obj["command"].val,
                           d.obj["done"].val = <<"true">>,
                           d.obj["plan"].val, d.obj["progress"].val)

\* strings.Index(jsonStr, "\"key\""): the position of the opening quote of the
\* first occurrence of the quoted word, 0 when there is none.
IndexQuoted(s, word) ==
    LET at(k) == k + 2 <= Len(s) /\ s[k] = Quote /\ s[k + 1] = word /\ s[k + 2] = Quote
    IN IF \E k \in 1..Len(s) : at(k)
       THEN CHOOSE k \in 1..Len(s) : at(k) /\ \A j \in 1..(k - 1) : ~at(j)
       ELSE 0

\* The extraction parseJSON of part_000 makes after a key: it steps over the
\* key's two quotes and takes the text up to the next quote.  The panic is
\* the slice jsonStr[start:end] with end below start, when no quote follows.
ExtractAfterKey(jsonStr, word) ==
    LET key == IndexQuoted(jsonStr, word)
    IN IF key = 0 THEN [panic |-> FALSE, val |-> <<>>]
       ELSE LET start == key + 3
                next == Index(From(jsonStr, start), Quote)
            IN IF next = 0 THEN [panic |-> TRUE, val |-> <<>>]
               ELSE [panic |-> FALSE, val |-> SubSeq(jsonStr, start, start + next - 2)]

\* jsonStr[start:start+50] at the "completed" key: a panic when the text ends
\* before 50 bytes, else whether the 50 bytes hold the word true.
CompletedWindow(jsonStr) ==
    LET key == IndexQuoted(jsonStr, "completed")
    IN IF key = 0 THEN [panic |-> FALSE, val |-> FALSE]
       ELSE IF ByteLen(From(jsonStr, key)) < 50 THEN [panic |-> TRUE, val |-> FALSE]
       ELSE [panic |-> FALSE,
             val |-> \E k \in key..Len(jsonStr) :
                        /\ jsonStr[k] = "true"
                        /\ ByteLen(SubSeq(jsonStr, key, k)) <= 50]

\* parseResponse and parseJSON of part_000.  response[start:end] panics when
\* the last closing brace ends before the first opening brace starts.
parseResponsePart000(resp) ==
    LET start == Index(resp, "{")
        end == LastIndex(resp, "}")
    IN IF start = 0 \/ end = 0 THEN TextErr("no JSON found in response")
       ELSE IF ByteLen(SubSeq(resp, 1, start - 1)) > ByteLen(SubSeq(resp, 1, end))
            THEN TextErr("panic")
       ELSE LET jsonStr == SubSeq(resp, start, end)
                thought == ExtractAfterKey(jsonStr, "thought")
                command == ExtractAfterKey(jsonStr, "command")
                completed == CompletedWindow(jsonStr)
            IN IF thought.panic \/ command.panic \/ completed.panic
               THEN TextErr("panic")
               ELSE TextOk(thought.val, command.val, completed.val, <<>>, <<>>)

parseResponse(v, resp) ==
    IF v \in {"agent", "part001"} THEN parseResponseAgent(resp)
    ELSE IF v = "part000" THEN parseResponsePart000(resp)
    ELSE parseResponseMain(resp)

----------------------------------------------------------------------------
(* The parser on its own: parseResponse of each implementation applied     *)
(* once to a reply text.                                                   *)

Str(word) == <<Quote, word, Quote>>

\* "key":value, with a blank after the colon when spaced.
Member(key, value, spaced) ==
    Str(key) \o <<":">> \o (IF spaced THEN <<" ">> ELSE <<>>) \o value

RECURSIVE JoinMembers(_, _)
JoinMembers(members, spaced) ==
    IF members = <<>> THEN <<>>
    ELSE IF Len(members) = 1 THEN members[1]
    ELSE members[1] \o <<",">> \o (IF spaced THEN <<" ">> ELSE <<>>)
         \o JoinMembers(Tail(members), spaced)

\* The well-formed JSON text of an object with the fields f.
Encode(f) ==
    LET flag == IF f.flag = "absent" THEN <<>>
                ELSE <<Member(f.flagKey, <<f.flag>>, f.spaced)>>
        opt(key, val) == IF val = <<>> THEN <<>>
                         ELSE <<Member(key, Str(val[1]), f.spaced)>>
    IN <<"{">>
       \o JoinMembers((IF f.flagFirst THEN flag ELSE <<>>)
                      \o opt("thought", f.thought) \o opt("command", f.command)
                      \o (IF f.flagFirst THEN <<>> ELSE flag)
                      \o opt("plan", f.plan) \o opt("progress", f.progress)
                      \o (IF f.nested THEN <<Member("meta", <<"{", "}">>, f.spaced)>>
                          ELSE <<>>),
                      f.spaced)
       \o <<"}">>

\* The objects a reply can hold.
PlainFields ==
    [thought |-> <<"explore">>, command |-> <<"ls -la">>, flag |-> "absent",
     flagKey |-> "completed", flagFirst |-> FALSE, plan |-> <<>>, progress |-> <<>>,
     nested |-> FALSE, spaced |-> FALSE]
ObjectFields ==
    {PlainFields,
     [PlainFields EXCEPT !.spaced = TRUE],
     [PlainFields EXCEPT !.nested = TRUE],
     [PlainFields EXCEPT !.flag = "false"],
     [PlainFields EXCEPT !.flag = "true"],
     [PlainFields EXCEPT !.flag = "false", !.flagFirst = TRUE,
                         !.thought = <<"a thought that is fifty bytes long">>],
     [PlainFields EXCEPT !.flag = "true", !.flagFirst = TRUE,
                         !.thought = <<"a thought that is fifty bytes long">>],
     [PlainFields EXCEPT !.flag = "false", !.flagKey = "done", !.plan = <<"p">>,
                         !.progress = <<"g">>],
     [PlainFields EXCEPT !.flag = "true", !.flagKey = "done"],
     [PlainFields EXCEPT !.command = <<>>],
     [PlainFields EXCEPT !.command = <<>>, !.flag = "false", !.flagKey = "done"]}

\* The ways a reply wraps its object: bare, in a fenced block, in a fenced
\* block followed by prose, after prose, before prose, and before prose that
\* holds braces.
Fenced(o) == <<Fence, "json", "\n">> \o o \o <<"\n", Fence>>
ThenBraces(o) == o \o <<" ", "see", " ", "{", "x", "}">>
Wrappings(o) ==
    {o, Fenced(o), Fenced(o) \o <<"\n", "note", " ", "{", "x", "}">>,
     <<"note", ":", "\n">> \o o, o \o <<"\n", "note">>, ThenBraces(o)}

\* Texts that hold no object: prose, nothing, braces in the wrong order, a
\* lone brace, a brace pair around text that is no JSON, an object cut short.
Unclosed == SubSeq(Encode(PlainFields), 1, Len(Encode(PlainFields)) - 1)
BrokenTexts ==
    {<<"note">>, <<>>, <<"}", " ", "{">>, <<"}", "{">>, <<"{">>, <<"}">>,
     <<"{", "oops", "}">>, Unclosed, <<"{", Quote, "thought", Quote, "}">>}

ReplyTexts ==
    BrokenTexts \cup UNION {Wrappings(Encode(f)) : f \in ObjectFields}

InitParse ==
    /\ variant \in Variants
    /\ config = [MaxCommands |-> 1, DryRun |-> FALSE, AllowedCmds |-> {}]
    /\ pc = "parse"
    /\ stepCount = 0
    /\ i = 0
    /\ history = NewHistory(HistorySize(variant))
    /\ commandLog = <<>>
    /\ longTermPlan = ""
    /\ failedAttempts = <<>>
    /\ reply = NoReply
    /\ flagged = FALSE
    /\ response = NoResponse
    /\ runErr = "running"
    /\ errLimit = 0
    /\ errCause = ""
    /\ calls = 1
    /\ spawns = 0
    /\ gptErrors = 0
    /\ proposed = <<>>
    /\ leaked = FALSE
    /\ memory = NewMemory
    /\ probes = StartProbes(variant)
    /\ systemMsg = <<>>
    /\ runs = 1
    /\ replyText \in ReplyTexts
    /\ provider = "any"
    /\ httpResp = NoHTTP
    /\ last = Event("call", "")

\* a.parseResponse(response); a panic ends the process.
ParseReply ==
    /\ pc = "parse"
    /\ reply' = parseResponse(variant, replyText)
    /\ pc' = IF reply'.err = "panic" THEN "crashed" ELSE "parsed"
    /\ runErr' = IF reply'.err = "panic" THEN "panic" ELSE runErr
    /\ last' = Event(IF reply'.err = "" THEN "parsed"
                     ELSE IF reply'.err = "panic" THEN "panic" ELSE "parseError",
                     reply'.err)
    /\ UNCHANGED <<variant, config, stepCount, i, history, commandLog, longTermPlan,
                   failedAttempts, flagged, response, errLimit, errCause, calls,
                   spawns, gptErrors, proposed, leaked, memory, probes, systemMsg,
                   runs, replyText, provider,
                   httpResp>>

NextParse == ParseReply

SpecParse == InitParse /\ [][NextParse]_vars

\* The reply holds the fields of the object f: its thought and command, in
\* package main also its plan, its progress and its done flag, in part_000
\* its completed flag.
DecodedAs(f) ==
    /\ reply.err = ""
    /\ reply.thought = f.thought
    /\ reply.command = f.command
    /\ variant \in MainVariants =>
          /\ reply.plan = f.plan
          /\ reply.progress = f.progress
          /\ f.flagKey = "done" => reply.completed = (f.flag = "true")
    /\ (variant = "part000" /\ f.flagKey = "completed") =>
          reply.completed = (f.flag = "true")

\* The token occurs in one of the reply's fields.
FieldHolds(token) ==
    \E field \in {reply.thought, reply.command, reply.plan, reply.progress} :
        \E k \in 1..Len(field) : field[k] = token

\* The parser has been applied to the reply text.
Parsed == pc \in {"parsed", "crashed"}

\* C25: a reply that is one fenced block around one well-formed object with
\* a thought and a command parses without error, to the fields of that
\* object, and no field holds a fence marker.
C25_FencedReplyParsed ==
    Parsed =>
        \A f \in ObjectFields :
            (f.command # <<>> /\ replyText = Fenced(Encode(f)))
               => (DecodedAs(f) /\ ~FieldHolds(Fence))

\* The part of C25 the code keeps: every parser but part_000's decodes the
\* fenced object, followed by prose or not.
C25_ExceptPart000 ==
    (Parsed /\ variant # "part000") =>
        \A f \in ObjectFields :
            (/\ f.command # <<>>
             /\ replyText \in {Fenced(Encode(f)),
                               Fenced(Encode(f)) \o <<"\n", "note", " ", "{", "x", "}">>})
               => (DecodedAs(f) /\ ~FieldHolds(Fence) /\ pc = "parsed")

\* C26: prose after the object's closing brace, braces in the prose
\* included, does not change what is extracted: the reply parses to the
\* fields of the object that ends at the first brace back at depth zero.
C26_TrailingTextIgnored ==
    Parsed =>
        \A f \in ObjectFields :
            (f.command # <<>> /\ replyText = ThenBraces(Encode(f))) => DecodedAs(f)

\* The part of C26 the code keeps: extractJSON of agent.go and part_001
\* counts brace depth and stops at the object's own closing brace.
C26_DepthCountedInAgent ==
    (Parsed /\ variant \in {"agent", "part001"}) =>
        \A f \in ObjectFields :
            (f.command # <<>> /\ replyText \in Wrappings(Encode(f)))
               => (DecodedAs(f) /\ pc = "parsed")

\* The reply text holds no object: no brace pair in the right order, a pair
\* around text that is no JSON, or an object cut short.
HoldsNoObject == replyText \in BrokenTexts

\* The reply's fields are those of an object the text holds.
FromTheText ==
    \E f \in ObjectFields : replyText \in Wrappings(Encode(f)) /\ DecodedAs(f)

\* C27: parseResponse returns a reply or an error for every text and never
\* crashes; a text that holds no object gives an error; and a reply that is
\* returned holds the fields of an object in the text.
C27_ParseTotal ==
    Parsed =>
        /\ pc # "crashed"
        /\ HoldsNoObject => reply.err # ""
        /\ reply.err = "" => FromTheText

\* The part of C27 the code keeps: the parsers built on encoding/json.
C27_ExceptPart000 ==
    (Parsed /\ variant # "part000") =>
        /\ pc = "parsed"
        /\ reply.err # "panic"
        /\ HoldsNoObject => reply.err # ""
        /\ reply.err = "" => FromTheText

\* The reply just handled parsed without error, signals no completion and
\* holds no command.
EmptyCommandReply ==
    /\ Replied
    /\ reply'.err = ""
    /\ ~reply'.completed
    /\ reply'.command = ""

\* C28: a parsed, non-completing reply with an empty command skips the tick:
\* nothing is validated, executed or recorded, the tick stays charged to the
\* budget and the loop goes on.
C28_EmptyCommandSkipsTick ==
    [][EmptyCommandReply =>
          /\ pc' = "loop"
          /\ runErr' = runErr
          /\ history' = history
          /\ commandLog' = commandLog
          /\ spawns' = spawns
          /\ proposed' = proposed
          /\ Counter' = IF variant \in MainVariants THEN Counter + 1 ELSE Counter
      ]_vars

\* The part of C28 the code keeps: package main skips the tick; agent.go and
\* part_001 never parse such a reply without error.
C28_ExceptPart000 ==
    [][(EmptyCommandReply /\ variant # "part000") =>
          /\ variant \in MainVariants
          /\ last'.event = "noCommand"
          /\ pc' = "loop"
          /\ runErr' = runErr
          /\ history' = history
          /\ commandLog' = commandLog
          /\ spawns' = spawns
          /\ proposed' = proposed
          /\ i' = i + 1
      ]_vars

----------------------------------------------------------------------------
(* Run invoked again on an Agent whose Run has returned.                   *)

MaxRuns == 2
RerunBudget == 2

InitRerun ==
    /\ Init
    /\ config.MaxCommands <= RerunBudget
    /\ ~config.DryRun
    /\ config.AllowedCmds = {}

\* Run is called again on the same Agent.  Its locals start afresh (the loop
\* variable of package main among them); no Run assigns stepCount, history,
\* commandLog, longTermPlan or memory before its loop.  part_000 builds its
\* system prompt, with the working directory, at the start of every Run.
RunAgain ==
    /\ pc = "returned"
    /\ runErr # "panic"
    /\ runs < MaxRuns
    /\ pc' = "loop"
    /\ runs' = runs + 1
    /\ i' = 0
    /\ runErr' = "running"
    /\ errLimit' = 0
    /\ errCause' = ""
    /\ reply' = NoReply
    /\ flagged' = FALSE
    /\ response' = NoResponse
    /\ leaked' = FALSE
    /\ probes' = IF variant = "part000" THEN probes + 1 ELSE probes
    /\ last' = Event("start", "")
    /\ UNCHANGED <<variant, config, stepCount, history, commandLog, longTermPlan,
                   failedAttempts, calls, spawns, gptErrors, proposed, memory,
                   systemMsg, replyText, provider,
                   httpResp>>

NextRerun == Next \/ RunAgain

SpecRerun == InitRerun /\ [][NextRerun]_vars

\* Run has just been invoked.
RunStarts == pc = "loop" /\ last.event = "start"

\* Run is invoked on an Agent whose earlier Run ended DONE or EXHAUSTED.
RunsAgainAfterEnd ==
    /\ pc = "returned"
    /\ runErr \in {"nil", "reached maximum number of commands"}
    /\ pc' = "loop"

\* C29: every Run starts with its counter at 0 and an empty History (an
\* empty command log in package main): the first Run, and a Run invoked on
\* an Agent whose earlier Run ended DONE or EXHAUSTED.
C29_RunStartsFresh ==
    /\ []((RunStarts /\ runs = 1) =>
            (Counter = 0 /\ history.Steps = <<>> /\ commandLog = <<>>))
    /\ [][RunsAgainAfterEnd =>
            (Counter' = 0 /\ history'.Steps = <<>> /\ commandLog' = <<>>)]_vars

\* The part of C29 the code keeps: the first Run after New starts at 0 with
\* an empty History, and every Run of package main starts its counter at 0.
C29_FirstRunStartsFresh ==
    /\ (RunStarts /\ runs = 1) =>
          (Counter = 0 /\ history.Steps = <<>> /\ commandLog = <<>>)
    /\ (RunStarts /\ variant \in MainVariants) => Counter = 0


\* ------------------------------------------------------------------------
\* The completion backends: what each client's Complete makes of a response
\* ------------------------------------------------------------------------

Providers == {"yandex", "claude", "gemini", "deepseek", "ollama"}

StatusOK == 200
Statuses == {StatusOK, 400, 500}

\* The most entries a response envelope carries here.
MaxItems == 2

\* A response body: whether it decodes as JSON, whether it carries the
\* backend's error member, how many alternatives / choices / content blocks /
\* candidates it lists, how many parts the first candidate has, and the text
\* of the first one.
Bodies ==
    {NoBody} \cup
    [json : {TRUE}, error : BOOLEAN, items : 0..MaxItems, parts : 0..1,
     text : {"", "hello"}]

\* What HTTPClient.Do hands back: a transport error, or a status and a body.
HTTPResponses ==
    {[err |-> TRUE, status |-> 0, body |-> NoBody]} \cup
    [err : {FALSE}, status : Statuses, body : Bodies]

GotText(t) == [panic |-> FALSE, err |-> "", text |-> t]
GotError(e) == [panic |-> FALSE, err |-> e, text |-> ""]
IndexOutOfRange == [panic |-> TRUE, err |-> "index out of range", text |-> ""]

\* YandexClient.Complete: the status is checked, the body decoded, and the
\* first alternative returned without looking at how many there are.
CompleteYandex(r) ==
    IF r.err THEN GotError("failed to send request")
    ELSE IF r.status # StatusOK THEN GotError("API request failed")
    ELSE IF ~r.body.json THEN GotError("failed to decode response")
    ELSE IF r.body.items = 0 THEN IndexOutOfRange
    ELSE GotText(r.body.text)

\* ClaudeClient.Complete: no status check; decode, error member, length.
CompleteClaude(r) ==
    IF r.err THEN GotError("failed to send request")
    ELSE IF ~r.body.json THEN GotError("failed to decode response")
    ELSE IF r.body.error THEN GotError("Claude API error")
    ELSE IF r.body.items = 0 THEN GotError("no content in response")
    ELSE GotText(r.body.text)

\* GeminiClient.Complete: as Claude's, and the first candidate needs a part.
CompleteGemini(r) ==
    IF r.err THEN GotError("failed to send request")
    ELSE IF ~r.body.json THEN GotError("failed to decode response")
    ELSE IF r.body.error THEN GotError("Gemini API error")
    ELSE IF r.body.items = 0 \/ r.body.parts = 0
         THEN GotError("no content in response")
    ELSE GotText(r.body.text)

\* DeepSeekClient.Complete.
CompleteDeepSeek(r) ==
    IF r.err THEN GotError("failed to send request")
    ELSE IF ~r.body.json THEN GotError("failed to decode response")
    ELSE IF r.body.error THEN GotError("DeepSeek API error")
    ELSE IF r.body.items = 0 THEN GotError("no choices in response")
    ELSE GotText(r.body.text)

\* OllamaClient.Complete: the reply is one string member, empty when absent.
CompleteOllama(r) ==
    IF r.err THEN GotError("failed to send request")
    ELSE IF r.status # StatusOK THEN GotError("API request failed")
    ELSE IF ~r.body.json THEN GotError("failed to decode response")
    ELSE IF r.body.error THEN GotError("API error")
    ELSE GotText(IF r.body.items = 0 THEN "" ELSE r.body.text)

CompleteOf(p, r) ==
    CASE p = "yandex" -> CompleteYandex(r)
      [] p = "claude" -> CompleteClaude(r)
      [] p = "gemini" -> CompleteGemini(r)
      [] p = "deepseek" -> CompleteDeepSeek(r)
      [] OTHER -> CompleteOllama(r)

\* createGPTClient as the loop that knows every provider has it; the OpenAI
\* client it also names has no source here.
InitBackend ==
    /\ variant = "part001"
    /\ config = [MaxCommands |-> 1, DryRun |-> FALSE, AllowedCmds |-> {}]
    /\ pc = "request"
    /\ stepCount = 0
    /\ i = 0
    /\ history = NewHistory(HistorySize(variant))
    /\ commandLog = <<>>
    /\ longTermPlan = ""
    /\ failedAttempts = <<>>
    /\ reply = NoReply
    /\ flagged = FALSE
    /\ response = NoResponse
    /\ runErr = "running"
    /\ errLimit = 0
    /\ errCause = ""
    /\ calls = 1
    /\ spawns = 0
    /\ gptErrors = 0
    /\ proposed = <<>>
    /\ leaked = FALSE
    /\ memory = NewMemory
    /\ probes = StartProbes(variant)
    /\ systemMsg = <<>>
    /\ runs = 1
    /\ replyText = <<>>
    /\ provider \in Providers
    /\ httpResp \in HTTPResponses
    /\ last = Event("call", "")

\* client.Complete(messages) on the response that came back; an index out of
\* range is a run-time panic nothing recovers from.
BackendReplies ==
    /\ pc = "request"
    /\ LET o == CompleteOf(provider, httpResp) IN
          /\ pc' = IF o.panic THEN "crashed"
                   ELSE IF o.err # "" THEN "failed" ELSE "replied"
          /\ last' = IF o.panic THEN Event("panic", o.err)
                     ELSE IF o.err # "" THEN Event("gptError", o.err)
                     ELSE [event |-> "gptText", err |-> "",
                           outcome |-> o.text]
          /\ gptErrors' = IF o.err # "" /\ ~o.panic THEN gptErrors + 1
                          ELSE gptErrors
    /\ UNCHANGED <<variant, config, stepCount, i, history, commandLog,
                   longTermPlan, failedAttempts, reply, flagged, response,
                   runErr, errLimit, errCause, calls, spawns, proposed,
                   leaked, memory, probes, systemMsg, runs, replyText,
                   provider, httpResp>>

NextBackend == BackendReplies

SpecBackend == InitBackend /\ [][NextBackend]_vars

\* A response whose status is not the success status.
NonSuccess == ~httpResp.err /\ httpResp.status # StatusOK

\* A well-formed envelope that lists no alternative, choice or content block.
EmptyEnvelope ==
    /\ ~httpResp.err
    /\ httpResp.status = StatusOK
    /\ httpResp.body.json
    /\ ~httpResp.body.error
    /\ httpResp.body.items = 0

Answered == pc \in {"replied", "failed", "crashed"}

\* C30: whatever the backend sent back (a transport failure, a non-success
\* status, an undecodable body, an error envelope, an envelope with no
\* alternatives), Complete ends with a text or with an error value, and it
\* never ends the process.
C30_CompleteNeverAborts ==
    Answered =>
        /\ pc # "crashed"
        /\ last.event \in {"gptText", "gptError"}

\* C30, the part the code keeps: every backend but Yandex's turns every
\* response into a text or an error value, and Yandex's does so for every
\* response but a success status with an envelope that lists no alternative.
C30_ExceptYandexEmpty ==
    (Answered /\ ~(provider = "yandex" /\ httpResp.status = StatusOK
                   /\ httpResp.body.json /\ httpResp.body.items = 0)) =>
        /\ pc # "crashed"
        /\ last.event \in {"gptText", "gptError"}
        /\ (EmptyEnvelope /\ provider # "ollama") => pc = "failed"
        /\ (NonSuccess /\ provider \in {"yandex", "ollama"}) => pc = "failed"
        /\ httpResp.err => pc = "failed"


\* ------------------------------------------------------------------------
\* The order of the validator's checks
\* ------------------------------------------------------------------------

\* What each check objects to, one by one.
ViolatesCd(command) == HasPrefix(TrimSpace(Text(command)), <<"c", "d", " ">>)
ViolatesMkdir(command) ==
    /\ HasPrefix(TrimSpace(Text(command)), <<"m", "k", "d", "i", "r", " ">>)
    /\ ~Occurs(Text(command), <<"-", "p">>)
ViolatesEcho(command) ==
    /\ Occurs(Text(command), <<"e", "c", "h", "o", " ", "'">>)
    /\ Occurs(Text(command), <<"\\", "n">>)
ViolatesBlocklist(cfg, command) ==
    HoldsBlocklisted(command) /\ ~LeadingTokenAllowed(cfg, command)

\* The error of the earliest check the command violates, in the order cd,
\* mkdir, echo, repetition, blocklist; "" when it violates none of them.
EarliestViolation(cfg, command, repeated) ==
    IF ViolatesCd(command) THEN ErrCd
    ELSE IF ViolatesMkdir(command) THEN ErrMkdir
    ELSE IF ViolatesEcho(command) THEN ErrEcho
    ELSE IF repeated THEN ErrRepeat
    ELSE IF ViolatesBlocklist(cfg, command) THEN ErrDangerous
    ELSE ""

\* How many of the five checks the command violates.
Violations(cfg, command, repeated) ==
    Cardinality({k \in 1..5 :
        \/ k = 1 /\ ViolatesCd(command)
        \/ k = 2 /\ ViolatesMkdir(command)
        \/ k = 3 /\ ViolatesEcho(command)
        \/ k = 4 /\ repeated
        \/ k = 5 /\ ViolatesBlocklist(cfg, command)})

\* C31: the checks run in the order cd, mkdir, echo, repetition, blocklist
\* and stop at the first violation: a command that violates one or more of
\* them is rejected with the error of the earliest one, where a command is
\* repeated when it was handed to the executor among the last W commands (a
\* repeated cd command gets the cd error, a repeated blocklisted command the
\* repetition error).
C31_EarliestViolationWins ==
    [][(variant \in MainVariants /\ Replied /\ proposed' # proposed) =>
          LET c == Last(proposed')
              e == EarliestViolation(config, c,
                       c \in Recent(proposed, RepeatWindow(variant)))
          IN e # "" => (last'.event = "rejected" /\ last'.err = e)]_vars

\* The part of C31 the code keeps: with repeated read as "among the last W
\* entries of the command log", a command that violates one or more checks
\* is rejected with the error of the earliest one, and a command that
\* violates none is rejected by none of them.
C31_OrderOnTheCommandLog ==
    [][Decided =>
          LET c == Last(proposed')
              e == EarliestViolation(config, c,
                       \E k \in 1..Len(commandLog) :
                          /\ k > Len(commandLog) - RepeatWindow(variant)
                          /\ commandLog[k].Command = c)
          IN /\ e # "" => (last'.event = "rejected" /\ last'.err = e)
             /\ e = "" => last'.err \notin
                             {ErrCd, ErrMkdir, ErrEcho, ErrRepeat, ErrDangerous}]_vars

\* A command that violates two checks at once has been rejected.
C31_SeveralViolated ==
    /\ pc = "loop"
    /\ proposed # <<>>
    /\ last.event = "rejected"
    /\ Violations(config, Last(proposed), FALSE) >= 2


\* ------------------------------------------------------------------------
\* What the user message shows of the History
\* ------------------------------------------------------------------------

\* The lines of a text that carry one of the given labels, in their order.
LinesLabelled(text, labels) ==
    LET Test(l) == l.label \in labels IN SelectSeq(text, Test)

\* The heading line of each retained Step, and of each retained log entry,
\* oldest first.
RetainedSteps == [k \in 1..Len(history.Steps) |-> Line("Step", history.Steps[k].Number)]
RetainedEntries ==
    [k \in 1..Len(commandLog) |->
        Line(IF commandLog[k].Error # "" THEN "failed" ELSE "ok", commandLog[k].Command)]

\* The last w elements of a sequence, in their order.
LastOf(seq, w) == SubSeq(seq, (IF Len(seq) > w THEN Len(seq) - w ELSE 0) + 1, Len(seq))

\* C32: the user message of a tick shows exactly the Steps (log entries) the
\* History retains, oldest first, all of them made by earlier ticks; and a
\* Step is appended after every Step appended before it, with a greater
\* number.
C32_PromptShowsRetained ==
    /\ [](/\ variant \in AgentVariants =>
                /\ LinesLabelled(UserMessage, {"Step"}) = RetainedSteps
                /\ \A k \in 1..Len(history.Steps) : history.Steps[k].Number <= stepCount
          /\ variant \in MainVariants =>
                LinesLabelled(UserMessage, {"ok", "failed"}) = RetainedEntries)
    /\ [][/\ history'.Steps # history.Steps =>
               /\ Last(history'.Steps).Number = stepCount'
               /\ \A k \in 1..Len(history.Steps) :
                     history.Steps[k].Number < Last(history'.Steps).Number
          /\ commandLog' # commandLog =>
               \/ commandLog' = <<>>
               \/ SubSeq(commandLog', 1, Len(commandLog') - 1) =
                     LastOf(commandLog, Len(commandLog') - 1)]_vars

\* The part of C32 the code keeps: package agent shows every retained Step,
\* package main the last Shown(variant) entries of its log, oldest first and
\* none of them from a later tick; appends keep the order.
C32_ShowsTheLatestRetained ==
    /\ [](/\ variant \in AgentVariants =>
                /\ LinesLabelled(UserMessage, {"Step"}) = RetainedSteps
                /\ \A k \in 1..Len(history.Steps) : history.Steps[k].Number <= stepCount
          /\ variant \in MainVariants =>
                LinesLabelled(UserMessage, {"ok", "failed"})
                   = LastOf(RetainedEntries, Shown(variant)))
    /\ [][/\ history'.Steps # history.Steps =>
               /\ Last(history'.Steps).Number = stepCount'
               /\ \A k \in 1..Len(history.Steps) :
                     history.Steps[k].Number < Last(history'.Steps).Number
          /\ commandLog' # commandLog =>
               \/ commandLog' = <<>>
               \/ SubSeq(commandLog', 1, Len(commandLog') - 1) =
                     LastOf(commandLog, Len(commandLog') - 1)]_vars


\* ------------------------------------------------------------------------
\* One thread of control
\* ------------------------------------------------------------------------

\* Run is inside a completion call, or inside the wait for its subprocess.
CallOutstanding == pc \in {"complete", "waiting"}
SubprocessOutstanding == pc \in {"exec", "hung"}

\* C33: the loop is strictly sequential.  A completion call starts only
\* when no call and no subprocess is outstanding, and Run then waits for it;
\* a subprocess starts only in the step that handles the call's reply, and
\* Run then waits for it; while either is outstanding nothing else starts;
\* and Run leaves a wait only when the call or the subprocess has returned,
\* so the next tick does not begin before.
C33_StrictlySequential ==
    [][/\ calls' \in {calls, calls + 1}
       /\ spawns' \in {spawns, spawns + 1}
       /\ calls' = calls + 1 =>
             /\ ~CallOutstanding /\ ~SubprocessOutstanding
             /\ CallOutstanding'
             /\ spawns' = spawns
       /\ spawns' = spawns + 1 =>
             /\ CallOutstanding /\ last'.event = "spawn"
             /\ SubprocessOutstanding'
       /\ SubprocessOutstanding =>
             /\ calls' = calls /\ spawns' = spawns
             /\ ~SubprocessOutstanding' => last'.event = "executed"
       /\ CallOutstanding =>
             /\ calls' = calls
             /\ ~CallOutstanding' =>
                   last'.event \notin {"call", "noResponse", "hang", "executed"}
       /\ ~(CallOutstanding' /\ SubprocessOutstanding')]_vars

\* C33 witness: the second tick's subprocess is outstanding, the first
\* tick's call and subprocess having returned before the second tick began.
C33_Witness ==
    /\ pc = "exec"
    /\ calls = 2
    /\ spawns = 2
    /\ last.event = "spawn"
    /\ (variant \in AgentVariants => Len(history.Steps) = 1)
    /\ (variant \in MainVariants => Len(commandLog) = 1)


\* ------------------------------------------------------------------------
\* The repetition window
\* ------------------------------------------------------------------------

\* The command is the command of one of the last w entries of the log.
AmongTheLast(w, log, command) ==
    \E k \in 1..Len(log) : k > Len(log) - w /\ log[k].Command = command

\* The command is in the log somewhere.
RanBefore(log, command) == \E k \in 1..Len(log) : log[k].Command = command

\* W: 3 in main.go, 5 in part_003.
W == IF variant = "part003" THEN RepeatWindowPart003 ELSE RepeatWindowMain

\* C34: the repetition check reads the last W entries of the command log
\* only (W = 3 in main.go, 5 in part_003).  A command that ran before, but
\* not within the last W entries, is not rejected for repetition and is
\* executed again; one that passes the earlier checks and is among the last
\* W entries is rejected for repetition.
C34_RepetitionWindow ==
    [][Decided =>
          LET c == Last(proposed') IN
          /\ (RanBefore(commandLog, c) /\ ~AmongTheLast(W, commandLog, c)) =>
                /\ last'.err # ErrRepeat
                /\ last'.event = "spawn"
                /\ pc' = "exec"
                /\ spawns' = spawns + 1
          /\ AmongTheLast(W, commandLog, c) =>
                /\ last'.event = "rejected"
                /\ last'.err = ErrRepeat
                /\ spawns' = spawns]_vars

\* C34 witness: in main.go ls ran, three other commands ran after it, and ls
\* is being executed again.
C34_Witness ==
    /\ variant = "main"
    /\ pc = "exec"
    /\ proposed = <<"ls">>
    /\ spawns = 1
    /\ Len(commandLog) = RepeatWindowMain + 1
    /\ commandLog[1].Command = "ls"
    /\ \A k \in 2..Len(commandLog) : commandLog[k].Command # "ls"


\* ------------------------------------------------------------------------
\* The command log in dry-run mode
\* ------------------------------------------------------------------------

\* C35: in package main the command log gains an entry only when a spawned
\* subprocess returns, one entry for it.  In dry-run mode nothing is ever
\* spawned, the log stays empty, every tick's user message is the initial
\* "No commands executed yet" text, and no command is rejected for
\* repetition.
C35_DryRunLeavesLogEmpty ==
    /\ [](variant \in MainVariants =>
             /\ Len(commandLog) <= spawns
             /\ config.DryRun =>
                   /\ spawns = 0
                   /\ commandLog = <<>>
                   /\ UserMessage[1] = Line("No commands executed yet.", "")
                   /\ LinesLabelled(UserMessage, {"ok", "failed"}) = <<>>
                   /\ last.err # ErrRepeat)
    /\ [][(variant \in MainVariants /\ commandLog' # commandLog) =>
             /\ SubprocessOutstanding
             /\ last'.event = "executed"
             /\ Len(commandLog') = Len(commandLog) + 1
             /\ Last(commandLog').Command = reply.command]_vars

\* C35 witness: main.go in dry-run mode has simulated ls on two ticks in a
\* row, and the third tick's call is out with the log still empty.
C35_Witness ==
    /\ variant = "main"
    /\ config.DryRun
    /\ pc = "complete"
    /\ calls = 3
    /\ proposed = <<"ls", "ls">>
    /\ commandLog = <<>>
    /\ UserMessage = <<Line("No commands executed yet.", "")>>


\* ------------------------------------------------------------------------
\* The allow-list override
\* ------------------------------------------------------------------------

\* The command's name as the shell reads it: the text up to the first blank
\* or control operator.
CommandWord(s) ==
    LET t == TrimSpace(s)
        ends == {k \in 1..Len(t) : IsSpace(t[k]) \/ t[k] \in {";", "|", "&"}}
    IN IF ends = {} THEN t
       ELSE SubSeq(t, 1, (CHOOSE k \in ends : \A m \in ends : k <= m) - 1)

\* The command violates none of the checks made before the blocklist.
PassesEarlierChecks(command) ==
    /\ ~ViolatesCd(command) /\ ~ViolatesMkdir(command) /\ ~ViolatesEcho(command)
    /\ ~AmongTheLast(W, commandLog, command)

\* C36 as stated: a command whose leading command word is allow-listed is
\* never rejected by the blocklist, whatever else its text holds (allowing
\* ls lets "ls; sudo rm -rf /" pass); and a command whose leading word is
\* not allow-listed is not let through because an entry occurs elsewhere.
C36_LeadingCommandOverride ==
    [][Decided =>
          LET c == Last(proposed') IN
          /\ (\E a \in config.AllowedCmds : Text(a) = CommandWord(Text(c))) =>
                last'.err # ErrDangerous
          /\ (/\ HoldsBlocklisted(c) /\ PassesEarlierChecks(c)
              /\ ~\E a \in config.AllowedCmds : Text(a) = CommandWord(Text(c))) =>
                (last'.err = ErrDangerous /\ spawns' = spawns)]_vars

\* C36 amended: the override is all-or-nothing on the leading
\* whitespace-separated token, punctuation attached to it included.  When
\* that token equals an allow-list entry no blocklist pattern rejects the
\* command, and it goes on to the executor although patterns occur later in
\* its text; when it does not, the blocklist rejects the command, an
\* allow-list entry occurring elsewhere in it overrides nothing.
C36_LeadingTokenOverride ==
    [][Decided =>
          LET c == Last(proposed') IN
          /\ LeadingTokenAllowed(config, c) => last'.err # ErrDangerous
          /\ (/\ LeadingTokenAllowed(config, c) /\ HoldsBlocklisted(c)
              /\ PassesEarlierChecks(c) /\ ~config.DryRun) =>
                (pc' = "exec" /\ spawns' = spawns + 1)
          /\ (/\ HoldsBlocklisted(c) /\ PassesEarlierChecks(c)
              /\ ~LeadingTokenAllowed(config, c)) =>
                (last'.err = ErrDangerous /\ spawns' = spawns)]_vars

\* C36 witness: with ls allow-listed, a command whose leading token is ls
\* and whose later text holds blocklisted patterns has been spawned.
C36_Witness ==
    /\ pc = "exec"
    /\ proposed = <<"ls ; sudo rm -rf /">>
    /\ config.AllowedCmds = {"ls"}
    /\ last.event = "spawn"
    /\ spawns = 1


\* ------------------------------------------------------------------------
\* Package agent: one Step for every command proposed
\* ------------------------------------------------------------------------

\* The step just taken handled a reply that parsed and did not end the run.
ParsedAndGoesOn ==
    /\ pc = "complete"
    /\ last'.event \in {"dryRun", "spawn", "sentinelStep"}

\* The step just taken is one that records a Step: the simulated command's,
\* or the returned subprocess's.
StepDue ==
    \/ ParsedAndGoesOn /\ (config.DryRun \/ last'.event = "sentinelStep")
    \/ SubprocessOutstanding /\ ~SubprocessOutstanding'

\* C37: in package agent a tick whose reply parses to a command other than
\* the sentinel is never rejected: the command is simulated (dry run) or
\* spawned, whatever it is, and exactly one Step is appended for it, at once
\* in dry-run mode and when the subprocess returns otherwise.  No other tick
\* appends a Step, so at the end of every tick the Steps number the ticks
\* whose reply parsed and did not complete.
C37_OneStepPerCommand ==
    /\ [](variant \in AgentVariants =>
             /\ last.event # "rejected"
             /\ proposed = <<>>
             /\ Len(history.Steps) <= calls - gptErrors
             /\ ~config.DryRun =>
                   Len(history.Steps) = spawns - (IF SubprocessOutstanding THEN 1 ELSE 0)
             /\ config.DryRun => spawns = 0)
    /\ [][(variant \in AgentVariants) =>
             /\ (Replied /\ reply'.err = "" /\ last'.event # "completed") =>
                   /\ ParsedAndGoesOn
                   /\ IF config.DryRun \/ last'.event = "sentinelStep"
                      THEN /\ Len(history'.Steps) = Len(history.Steps) + 1
                           /\ Last(history'.Steps).Command = reply'.command
                           /\ Last(history'.Steps).Number = stepCount
                      ELSE /\ history' = history
                           /\ SubprocessOutstanding'
                           /\ spawns' = spawns + 1
             /\ (SubprocessOutstanding /\ ~SubprocessOutstanding') =>
                   /\ Len(history'.Steps) = Len(history.Steps) + 1
                   /\ Last(history'.Steps).Command = reply.command
                   /\ Last(history'.Steps).Number = stepCount
             /\ ~StepDue => history' = history]_vars

\* C37 witness: agent.go has executed cd /tmp on two ticks in a row and
\* holds a Step for each.
C37_Witness ==
    /\ variant = "agent"
    /\ pc = "loop"
    /\ ~config.DryRun
    /\ spawns = 2
    /\ Len(history.Steps) = 2
    /\ history.Steps[1].Command = "cd /tmp"
    /\ history.Steps[2].Command = "cd /tmp"
    /\ history.Steps[1].Number = 1
    /\ history.Steps[2].Number = 2


\* ------------------------------------------------------------------------
\* Package agent: both fields required
\* ------------------------------------------------------------------------

\* The reply is a well-formed object with a command and without a thought.
CommandWithoutThought ==
    /\ Replied
    /\ response'.thought = ""
    /\ response'.command \in Cmds

\* C38: in package agent a well-formed reply that carries a valid command
\* and no thought (missing or empty) is a parse failure: the command is not
\* executed, no Step is appended, the loop goes on and the tick stays
\* charged to the budget.
C38_ThoughtRequired ==
    [][(variant \in AgentVariants /\ CommandWithoutThought) =>
          /\ reply'.err # ""
          /\ last'.event = "parseError"
          /\ spawns' = spawns
          /\ history' = history
          /\ pc' = "loop"
          /\ stepCount' = stepCount
          /\ stepCount = calls]_vars

\* The part of C38 the code keeps: agent.go and part_001 treat the reply as
\* a parse failure with the missing-fields error.
C38_ExceptPart000 ==
    [][(variant \in {"agent", "part001"} /\ CommandWithoutThought) =>
          /\ reply'.err = "missing required fields in JSON response"
          /\ last'.event = "parseError"
          /\ spawns' = spawns
          /\ history' = history
          /\ pc' = "loop"
          /\ stepCount' = stepCount
          /\ stepCount = calls]_vars


\* ------------------------------------------------------------------------
\* The repetition window lies within the prompt
\* ------------------------------------------------------------------------

\* The user message carries the line of a log entry with this command.
ShownInPrompt(command) ==
    LET shown == LinesLabelled(UserMessage, {"ok", "failed"})
    IN \E k \in 1..Len(shown) : shown[k].value = command

\* C39: in package main the windows are nested, repetition window <= entries
\* the user message shows <= capacity of the command log; every entry the
\* repetition check reads is shown in the user message of the tick, and so
\* is the command of every repetition rejection.
C39_WindowWithinPrompt ==
    /\ [](variant \in MainVariants =>
            /\ RepeatWindow(variant) <= Shown(variant)
            /\ Shown(variant) <= MaxRememberedCommands
            /\ Len(commandLog) <= MaxRememberedCommands
            /\ \A k \in 1..Len(commandLog) :
                  hasCommandBeenTried(variant, commandLog, commandLog[k].Command)
                     => ShownInPrompt(commandLog[k].Command))
    /\ [][(Decided /\ last'.err = ErrRepeat) =>
             /\ AmongTheLast(W, commandLog, Last(proposed'))
             /\ ShownInPrompt(Last(proposed'))
             /\ commandLog' = commandLog]_vars

\* C39 witness: the log holds more entries than the user message shows, and
\* the command just rejected for repetition is the oldest entry the
\* repetition check reads.
C39_Witness ==
    /\ variant \in MainVariants
    /\ last.event = "rejected"
    /\ last.err = ErrRepeat
    /\ Len(commandLog) > Shown(variant)
    /\ commandLog[Len(commandLog) - W + 1].Command = Last(proposed)

============================================================================
